---- MODULE Spec2Model ----
(***************************************************************************)
(* newton-cache: the adapter contract and its three stores.                *)
(*   MemoryCache    src/src/adapters/memory.ts                             *)
(*   FileCache      src/src/adapters/file.ts      (one file per key)       *)
(*   FlatFileCache  src/unnamed/part_006          (one JSON document)      *)
(* Every operation of a store is an operator from (store state, clock,     *)
(* arguments) to [s |-> the store state afterwards, r |-> the result].     *)
(***************************************************************************)
EXTENDS Integers, Sequences, FiniteSets, TLC

VARIABLES
    kind,       \* which store the instance under test is: "memory", "file", "flat"
    now,        \* Date.now(), in milliseconds
    mem,        \* MemoryCache.store : key -> entry
    dir,        \* FileCache: the cache directory, filename -> content of the file
    flat,       \* FlatFileCache: [store, loaded, removedOnLoad, disk]
    op,         \* the operation that ran last: [name, key]
    ret,        \* what it returned
    calls,      \* how many times a caller-supplied factory has been invoked
    sc,         \* the scenario being run (a script of calls), when there is one
    par         \* the calls in flight on an async store, when there are any

vars == <<kind, now, mem, dir, flat, op, ret, calls, sc, par>>

(***************************************************************************)
(* Bounds of the model.                                                    *)
(***************************************************************************)
MaxTicks == 3        \* the clock advances at most this many times
MaxCount == 2        \* counters stay within -MaxCount .. MaxCount
MaxHalvings == 1     \* a second is divided in two at most this many times
MaxTasks == 3        \* at most this many calls are in flight at once

(***************************************************************************)
(* Time.  `seconds` arguments are given in fractions 1/SecDenom of a       *)
(* second so that a fractional TTL (0.5) can be passed; expiresAt and now  *)
(* are milliseconds, and the clock advances by one such fraction.          *)
(***************************************************************************)
MsPerSec == 1000
SecDenom == 2 ^ MaxHalvings
TickMs   == MsPerSec \div SecDenom
Epoch    == 2 * MsPerSec                 \* Date.now() at construction

(***************************************************************************)
(* JavaScript values.  [t |-> type tag, n |-> payload].                    *)
(***************************************************************************)
Undef   == [t |-> "undefined", n |-> 0]
Null    == [t |-> "null", n |-> 0]
NaN     == [t |-> "NaN", n |-> 0]
PosInf  == [t |-> "Infinity", n |-> 1]
NegInf  == [t |-> "Infinity", n |-> -1]
Num(n)  == [t |-> "number", n |-> n]      \* a finite number
Str(n)  == [t |-> "string", n |-> n]      \* the n-th distinct string
Obj(n)  == [t |-> "object", n |-> n]      \* the n-th distinct plain JSON object

Hello   == Str(0)
Gone    == Str(1)
Fresh   == Str(2)

\* typeof v === "number"
IsNumber(v) == v.t \in {"number", "NaN", "Infinity"}

\* Number.isFinite(v)
IsFinite(v) == v.t = "number"

\* a + b on IEEE doubles (finite operands are small integers here, so exact)
Plus(a, b) ==
    IF a.t = "NaN" \/ b.t = "NaN" THEN NaN
    ELSE IF a.t = "Infinity" /\ b.t = "Infinity"
         THEN (IF a.n = b.n THEN a ELSE NaN)
    ELSE IF a.t = "Infinity" THEN a
    ELSE IF b.t = "Infinity" THEN b
    ELSE Num(a.n + b.n)

\* a where -a is meant
Neg_same(a) == a

\* -a
Neg(a) == IF a.t = "NaN" THEN NaN ELSE [t |-> a.t, n |-> 0 - a.n]

\* v || undefined: every falsy value reads as undefined
OrUndefined_falsy(v) ==
    IF v \in {Null, Undef, NaN, Num(0)} THEN Undef ELSE v

\* v ?? undefined
OrUndefined(v) == IF v = Null \/ v = Undef THEN Undef ELSE v

\* JSON.parse(JSON.stringify(v)) for a field value: NaN and the infinities are
\* written as null; an undefined field is left out, and reads back undefined.
JsonValue(v) == IF v.t \in {"NaN", "Infinity"} THEN Null ELSE v

(***************************************************************************)
(* Cache entries (CachePayload).                                           *)
(***************************************************************************)
NoExpiry == 0 - 1                   \* expiresAt undefined / null / left out
NoKey    == ""                      \* key left out of the payload
Absent   == [absent |-> TRUE]       \* Map.get(key) === undefined, no file

Entry(v, e, k) == [value |-> v, expiresAt |-> e, key |-> k]

\* the key that names the prototype accessor of a JavaScript object
ProtoKey == "__proto__"

\* entry.expiresAt != null && entry.expiresAt <= Date.now()
isExpired(entry, t) == entry.expiresAt # NoExpiry /\ entry.expiresAt <= t

\* !seconds ? undefined : Date.now() + seconds * 1000
ExpiresAtFor_falsy(s, t) ==
    IF s = Undef \/ s = Null \/ ~IsFinite(s) \/ s.n = 0 THEN NoExpiry
    ELSE t + (s.n * MsPerSec) \div SecDenom

\* seconds == null || !Number.isFinite(seconds) ? undefined : Date.now() + seconds * 1000
\* (seconds is Undef when omitted; a finite seconds is s.n / SecDenom)
ExpiresAtFor(s, t) ==
    IF s = Undef \/ s = Null \/ ~IsFinite(s) THEN NoExpiry
    ELSE t + (s.n * MsPerSec) \div SecDenom

\* Math.floor(remaining / 1000)
CeilSeconds_floor(remaining) == remaining \div MsPerSec

\* Math.ceil(remaining / 1000), remaining > 0
\* Math.floor(remaining / 1000) + 1 in the place of Math.ceil
CeilSeconds_next(remaining) == remaining \div MsPerSec + 1

CeilSeconds(remaining) == (remaining + MsPerSec - 1) \div MsPerSec

(***************************************************************************)
(* Default values: a literal, a factory returning a value, or a factory    *)
(* that throws.                                                            *)
(***************************************************************************)
Lit(v)    == [d |-> "literal", v |-> v]
Fn(v)     == [d |-> "factory", v |-> v]
FnThrows  == [d |-> "throws", v |-> Undef]

\* resolveDefault that calls a factory that threw a second time
resolveDefault_retry(d) ==
    IF d.d = "literal" THEN [v |-> d.v, c |-> 0]
    ELSE IF d.d = "factory" THEN [v |-> d.v, c |-> 1]
    ELSE [v |-> Undef, c |-> 2]

\* resolveDefault: the value, and the number of factory invocations made
resolveDefault(d) ==
    IF d.d = "literal" THEN [v |-> d.v, c |-> 0]
    ELSE IF d.d = "factory" THEN [v |-> d.v, c |-> 1]
    ELSE [v |-> Undef, c |-> 1]

\* a call that returns r, and a call that an exception leaves (x)
Out(s, r, c)  == [s |-> s, r |-> r, c |-> c, x |-> FALSE]
Throws(s, c)  == [s |-> s, r |-> Undef, c |-> c, x |-> TRUE]
Miss(s, d)   == Out(s, resolveDefault(d).v, resolveDefault(d).c)

(***************************************************************************)
(* MemoryCache (src/src/adapters/memory.ts).  st : key -> entry | Absent.  *)
(***************************************************************************)
\* a get that keeps the default it resolved
Memory_get_stores(st, t, key, d) ==
    LET entry == st[key] IN
    IF entry = Absent
    THEN Miss([st EXCEPT ![key] = Entry(resolveDefault(d).v, NoExpiry, key)], d)
    ELSE IF isExpired(entry, t) THEN Miss([st EXCEPT ![key] = Absent], d)
    ELSE Out(st, OrUndefined(entry.value), 0)

Memory_get(st, t, key, d) ==
    LET entry == st[key] IN
    IF entry = Absent THEN Miss(st, d)
    ELSE IF isExpired(entry, t) THEN Miss([st EXCEPT ![key] = Absent], d)
    ELSE Out(st, OrUndefined(entry.value), 0)

Memory_pull(st, t, key, d) ==
    LET entry == st[key] IN
    IF entry = Absent THEN Miss(st, d)
    ELSE IF isExpired(entry, t) THEN Miss([st EXCEPT ![key] = Absent], d)
    ELSE Out([st EXCEPT ![key] = Absent], OrUndefined(entry.value), 0)

\* put that leaves an entry already stored for the key as it is
Memory_put_keep(st, t, key, value, seconds) ==
    Out(IF st[key] # Absent THEN st
        ELSE [st EXCEPT ![key] = Entry(value, ExpiresAtFor(seconds, t), key)],
        Undef, 0)

Memory_put(st, t, key, value, seconds) ==
    Out([st EXCEPT ![key] = Entry(value, ExpiresAtFor(seconds, t), key)], Undef, 0)

Memory_forever(st, t, key, value) == Memory_put(st, t, key, value, Undef)

\* forget that clears the whole map
Memory_forget_all(st, t, key) ==
    Out([k \in DOMAIN st |-> Absent], st[key] # Absent, 0)

Memory_forget(st, t, key) ==
    Out([st EXCEPT ![key] = Absent], st[key] # Absent, 0)

Memory_flush(st, t) == Out([k \in DOMAIN st |-> Absent], Undef, 0)

Memory_has(st, t, key) ==
    LET entry == st[key] IN
    IF entry = Absent THEN Out(st, FALSE, 0)
    ELSE IF isExpired(entry, t) THEN Out([st EXCEPT ![key] = Absent], FALSE, 0)
    ELSE Out(st, entry.value # Undef, 0)

Memory_add(st, t, key, value, seconds) ==
    LET h == Memory_has(st, t, key) IN
    IF h.r THEN Out(h.s, FALSE, 0)
    ELSE Out(Memory_put(h.s, t, key, value, seconds).s, TRUE, 0)

\* factory is the value the factory returns; c counts its invocations
Memory_remember(st, t, key, seconds, factory) ==
    LET h == Memory_has(st, t, key)
        g == Memory_get(h.s, t, key, Lit(Undef))
    IN  IF h.r /\ g.r # Undef THEN Out(g.s, g.r, 0)
        ELSE Out(Memory_put(IF h.r THEN g.s ELSE h.s, t, key, factory, seconds).s,
                 factory, 1)

Memory_rememberForever(st, t, key, factory) ==
    Memory_remember(st, t, key, PosInf, factory)

Memory_keys(st, t) ==
    Out([k \in DOMAIN st |->
            IF st[k] # Absent /\ isExpired(st[k], t) THEN Absent ELSE st[k]],
        {k \in DOMAIN st :
            st[k] # Absent /\ ~isExpired(st[k], t) /\ st[k].value # Undef},
        0)

Memory_count(st, t) ==
    LET ks == Memory_keys(st, t) IN Out(ks.s, Cardinality(ks.r), 0)

\* prune that also removes the entries without a value
Memory_prune_valueless(st, t) ==
    LET gone == {k \in DOMAIN st :
                    st[k] # Absent /\ (isExpired(st[k], t) \/ st[k].value = Undef)}
    IN  Out([k \in DOMAIN st |-> IF k \in gone THEN Absent ELSE st[k]],
            Cardinality(gone), 0)

Memory_prune(st, t) ==
    LET gone == {k \in DOMAIN st : st[k] # Absent /\ isExpired(st[k], t)} IN
    Out([k \in DOMAIN st |-> IF k \in gone THEN Absent ELSE st[k]],
        Cardinality(gone), 0)

Memory_ttl(st, t, key) ==
    LET entry == st[key] IN
    IF entry = Absent \/ entry.value = Undef THEN Out(st, Null, 0)
    ELSE IF entry.expiresAt = NoExpiry THEN Out(st, Null, 0)
    ELSE IF entry.expiresAt - t <= 0
         THEN Out([st EXCEPT ![key] = Absent], Null, 0)
    ELSE Out(st, Num(CeilSeconds(entry.expiresAt - t)), 0)

\* touch that renews an entry without looking at its expiry
Memory_touch_expired(st, t, key, seconds) ==
    LET entry == st[key] IN
    IF entry = Absent \/ entry.value = Undef THEN Out(st, FALSE, 0)
    ELSE Out([st EXCEPT ![key] =
                 Entry(entry.value, ExpiresAtFor(seconds, t), entry.key)],
             TRUE, 0)

Memory_touch(st, t, key, seconds) ==
    LET entry == st[key] IN
    IF entry = Absent \/ entry.value = Undef THEN Out(st, FALSE, 0)
    ELSE IF isExpired(entry, t) THEN Out([st EXCEPT ![key] = Absent], FALSE, 0)
    ELSE Out([st EXCEPT ![key] =
                 Entry(entry.value, ExpiresAtFor(seconds, t), entry.key)],
             TRUE, 0)

\* increment that adds to a stored number whether or not it has expired
Memory_increment_stale(st, t, key, amount) ==
    LET entry == st[key]
        use == entry # Absent /\ IsNumber(entry.value)
        newValue == Plus(IF use THEN entry.value ELSE Num(0), amount)
    IN  Out([st EXCEPT ![key] =
                Entry(newValue, IF use THEN entry.expiresAt ELSE NoExpiry, key)],
            newValue, 0)

Memory_increment(st, t, key, amount) ==
    LET entry == st[key]
        use == /\ entry # Absent
               /\ IsNumber(entry.value)
               /\ (entry.expiresAt = NoExpiry \/ entry.expiresAt > t)
        currentValue == IF use THEN entry.value ELSE Num(0)
        expiresAt == IF use THEN entry.expiresAt ELSE NoExpiry
        newValue == Plus(currentValue, amount)
    IN  Out([st EXCEPT ![key] = Entry(newValue, expiresAt, key)], newValue, 0)

Memory_decrement(st, t, key, amount) == Memory_increment(st, t, key, Neg(amount))

(***************************************************************************)
(* FileCache (src/src/adapters/file.ts).  dr : filename -> content, where  *)
(* a content is Absent (no such file), InvalidJson (text that does not     *)
(* parse), JsonNull (the text "null") or the parsed payload object.        *)
(***************************************************************************)
InvalidJson == [json |-> "invalid"]
JsonNull    == [json |-> "null"]
\* a directory stands at the path: existsSync is true; readFileSync,
\* writeFileSync, unlinkSync and a rename over it fail
Blocked     == [json |-> "directory"]
\* a file whose write was cut short: the text does not parse
Partial     == [json |-> "partial"]

MAX_KEY_LENGTH == 200

\* encodeURIComponent(key): "/" is escaped, letters are kept
encodeURIComponent(key) ==
    CASE key = "b/c" -> "b%2Fc"
      [] OTHER       -> key

\* decodeURIComponent(file)
decodeURIComponent(file) ==
    CASE file = "b%2Fc" -> "b/c"
      [] OTHER          -> file

\* crypto.createHash("sha256").update(key).digest("hex"), abbreviated
sha256(key) == "5e1f0c3a"

\* readdirSync(cacheDir): the file names in the order they are listed
Listing == <<"__proto__", "a", "b%2Fc", "long_5e1f0c3a">>

pathForKey(key) ==
    IF Len(key) > MAX_KEY_LENGTH THEN "long_" \o sha256(key)
    ELSE encodeURIComponent(key)

\* JSON.stringify({ value, expiresAt, key }) as it parses back
Payload(value, expiresAt, key) == Entry(JsonValue(value), expiresAt, key)

\* the file parses to an object (JSON.parse did not throw, !parsed is false)
Parsed(c) == c \notin {Absent, InvalidJson, JsonNull, Blocked, Partial}

\* unlinkSync(filename) where its failure is caught: the path stays
unlink(dr, filename) ==
    IF dr[filename] = Blocked THEN dr ELSE [dr EXCEPT ![filename] = Absent]

File_get(dr, t, key, d) ==
    LET filename == pathForKey(key)
        parsed == dr[filename]
    IN  IF parsed = Absent THEN Miss(dr, d)
        ELSE IF ~Parsed(parsed) THEN Miss(dr, d)
        ELSE IF isExpired(parsed, t) THEN Miss(unlink(dr, filename), d)
        ELSE Out(dr, OrUndefined(parsed.value), 0)

\* a pull that reads like get and leaves the file
File_pull_keeps(dr, t, key, d) == File_get(dr, t, key, d)

File_pull(dr, t, key, d) ==
    LET filename == pathForKey(key)
        parsed == dr[filename]
    IN  IF parsed = Absent THEN Miss(dr, d)
        ELSE IF ~Parsed(parsed) THEN Miss(unlink(dr, filename), d)
        ELSE IF isExpired(parsed, t) THEN Miss(unlink(dr, filename), d)
        ELSE Out(unlink(dr, filename), OrUndefined(parsed.value), 0)

File_put(dr, t, key, value, seconds) ==
    IF dr[pathForKey(key)] = Blocked THEN Throws(dr, 0)
    ELSE Out([dr EXCEPT ![pathForKey(key)] =
                 Payload(value, ExpiresAtFor(seconds, t), key)], Undef, 0)

File_forever(dr, t, key, value) == File_put(dr, t, key, value, Undef)

File_forget(dr, t, key) ==
    LET filename == pathForKey(key) IN
    IF dr[filename] = Absent THEN Out(dr, FALSE, 0)
    ELSE IF dr[filename] = Blocked THEN Throws(dr, 0)
    ELSE Out(unlink(dr, filename), TRUE, 0)

\* flush that unlinks only the files whose payload has expired
File_flush_expired(dr, t) ==
    Out([f \in DOMAIN dr |->
            IF Parsed(dr[f]) /\ isExpired(dr[f], t) THEN Absent ELSE dr[f]],
        Undef, 0)

\* the loop of flush stops at the first file that unlinkSync cannot remove;
\* readdirSync lists the directory in the order of Listing
File_flush(dr, t) ==
    LET stuck == {i \in DOMAIN Listing : dr[Listing[i]] = Blocked}
        done(f) == \E i \in DOMAIN Listing :
                      Listing[i] = f /\ \A j \in stuck : i < j
    IN  Out([f \in DOMAIN dr |-> IF done(f) THEN Absent ELSE dr[f]], Undef, 0)

File_has(dr, t, key) ==
    LET filename == pathForKey(key)
        parsed == dr[filename]
    IN  IF parsed = Absent THEN Out(dr, FALSE, 0)
        ELSE IF ~Parsed(parsed) THEN Out(dr, FALSE, 0)
        ELSE IF isExpired(parsed, t) THEN Out(unlink(dr, filename), FALSE, 0)
        ELSE Out(dr, parsed.value # Undef, 0)

\* add that tests for the file instead of asking has
File_add_exists(dr, t, key, value, seconds) ==
    IF dr[pathForKey(key)] # Absent THEN Out(dr, FALSE, 0)
    ELSE Out(File_put(dr, t, key, value, seconds).s, TRUE, 0)

File_add(dr, t, key, value, seconds) ==
    LET h == File_has(dr, t, key)
        p == File_put(h.s, t, key, value, seconds)
    IN  IF h.r THEN Out(h.s, FALSE, 0)
        ELSE IF p.x THEN p
        ELSE Out(p.s, TRUE, 0)

File_remember(dr, t, key, seconds, factory) ==
    LET h == File_has(dr, t, key)
        g == File_get(h.s, t, key, Lit(Undef))
        expiresAt == IF IsFinite(seconds)
                     THEN t + (seconds.n * MsPerSec) \div SecDenom
                     ELSE NoExpiry
    IN  IF h.r /\ g.r # Undef THEN Out(g.s, g.r, 0)
        ELSE IF dr[pathForKey(key)] = Blocked THEN Throws(dr, 1)
        ELSE Out([(IF h.r THEN g.s ELSE h.s) EXCEPT ![pathForKey(key)] =
                     Payload(factory, expiresAt, key)],
                 factory, 1)

File_rememberForever(dr, t, key, factory) ==
    File_remember(dr, t, key, PosInf, factory)

\* the files keys() lists: they parse, hold a value and have not expired
Listed(dr, t) ==
    {f \in DOMAIN dr : Parsed(dr[f]) /\ dr[f].value # Undef /\ ~isExpired(dr[f], t)}

\* keys that names every file by its decoded name
File_keys_decoded(dr, t) ==
    Out([f \in DOMAIN dr |->
            IF Parsed(dr[f]) /\ dr[f].value # Undef /\ isExpired(dr[f], t)
            THEN Absent ELSE dr[f]],
        {decodeURIComponent(f) : f \in Listed(dr, t)},
        0)

File_keys(dr, t) ==
    Out([f \in DOMAIN dr |->
            IF Parsed(dr[f]) /\ dr[f].value # Undef /\ isExpired(dr[f], t)
            THEN Absent ELSE dr[f]],
        {IF dr[f].key # NoKey THEN dr[f].key ELSE decodeURIComponent(f) :
            f \in Listed(dr, t)},
        0)

File_count(dr, t) ==
    Out(File_keys(dr, t).s, Cardinality(Listed(dr, t)), 0)

\* prune that removes every file that carries an expiry
File_prune_timed(dr, t) ==
    LET gone == {f \in DOMAIN dr :
                    /\ dr[f] # Absent
                    /\ \/ ~Parsed(dr[f])
                       \/ dr[f].value = Undef
                       \/ dr[f].expiresAt # NoExpiry}
    IN  Out([f \in DOMAIN dr |-> IF f \in gone THEN Absent ELSE dr[f]],
            Cardinality(gone), 0)

File_prune(dr, t) ==
    LET gone == {f \in DOMAIN dr :
                    /\ dr[f] # Absent
                    /\ dr[f] # Blocked
                    /\ \/ ~Parsed(dr[f])
                       \/ dr[f].value = Undef
                       \/ isExpired(dr[f], t)}
    IN  Out([f \in DOMAIN dr |-> IF f \in gone THEN Absent ELSE dr[f]],
            Cardinality(gone), 0)

File_ttl(dr, t, key) ==
    LET filename == pathForKey(key)
        parsed == dr[filename]
    IN  IF parsed = Absent THEN Out(dr, Null, 0)
        ELSE IF ~Parsed(parsed) THEN Out(dr, Null, 0)
        ELSE IF parsed.value = Undef THEN Out(dr, Null, 0)
        ELSE IF parsed.expiresAt = NoExpiry THEN Out(dr, Null, 0)
        ELSE IF parsed.expiresAt - t <= 0 THEN Out(unlink(dr, filename), Null, 0)
        ELSE Out(dr, Num(CeilSeconds(parsed.expiresAt - t)), 0)

File_touch(dr, t, key, seconds) ==
    LET filename == pathForKey(key)
        parsed == dr[filename]
    IN  IF parsed = Absent THEN Out(dr, FALSE, 0)
        ELSE IF ~Parsed(parsed) THEN Out(dr, FALSE, 0)
        ELSE IF parsed.value = Undef THEN Out(dr, FALSE, 0)
        ELSE IF isExpired(parsed, t) THEN Out(unlink(dr, filename), FALSE, 0)
        ELSE Out([dr EXCEPT ![filename] =
                     Payload(parsed.value, ExpiresAtFor(seconds, t), parsed.key)],
                 TRUE, 0)

File_increment(dr, t, key, amount) ==
    LET filename == pathForKey(key)
        parsed == dr[filename]
        ok == Parsed(parsed)
        expired == ok /\ isExpired(parsed, t)
        currentValue == IF ok /\ IsNumber(parsed.value) /\ ~expired
                        THEN parsed.value ELSE Num(0)
        expiresAt == IF ok /\ ~expired THEN parsed.expiresAt ELSE NoExpiry
        storedKey == IF ok THEN parsed.key ELSE NoKey
        newValue == Plus(currentValue, amount)
    IN  IF parsed = Blocked THEN Throws(dr, 0)
        ELSE Out([dr EXCEPT ![filename] =
                     Payload(newValue, expiresAt,
                             IF storedKey # NoKey THEN storedKey ELSE key)],
                 newValue, 0)

File_decrement(dr, t, key, amount) == File_increment(dr, t, key, Neg(amount))

(***************************************************************************)
(* FlatFileCache (src/unnamed/part_006).                                   *)
(* fl = [store |-> key -> entry | Absent,  loaded, removedOnLoad,          *)
(*       disk |-> the backing file: Absent, BlankFile, InvalidJson,        *)
(*                JsonNull or Doc(key -> payload | JsonNull | Absent)]     *)
(***************************************************************************)
BlankFile == [json |-> "blank"]
Doc(es)   == [json |-> "object", entries |-> es]

IsDoc(c) == c # Absent /\ c.json = "object"

\* a save whose failure makes the instance forget that it has loaded
saveToDisk_forgets(fl) ==
    IF fl.disk = Blocked THEN [fl EXCEPT !.loaded = FALSE]
    ELSE [fl EXCEPT !.disk =
            Doc([k \in DOMAIN fl.store |->
                    IF fl.store[k] = Absent \/ k = ProtoKey THEN Absent
                    ELSE Payload(fl.store[k].value, fl.store[k].expiresAt,
                                 fl.store[k].key)])]

\* JSON.stringify(payload) of the whole mirror, written to the temp file and
\* renamed over the target
\* renamed over the target.  payload[key] = value on a plain object: the key
\* "__proto__" makes no property, so it is not written.  A failure (here: the
\* rename over a directory) is caught and leaves the target as it was.
saveToDisk(fl) ==
    IF fl.disk = Blocked THEN fl
    ELSE [fl EXCEPT !.disk =
            Doc([k \in DOMAIN fl.store |->
                    IF fl.store[k] = Absent \/ k = ProtoKey THEN Absent
                    ELSE Payload(fl.store[k].value, fl.store[k].expiresAt,
                                 fl.store[k].key)])]

\* an admission that does not look at the expiry
Admitted_valued(e, t) == e # Absent /\ e # JsonNull /\ e.value # Undef

\* an entry of the document that loadFromDisk admits to the mirror
Admitted(e, t) == e # Absent /\ e # JsonNull /\ e.value # Undef /\ ~isExpired(e, t)

loadFromDisk(fl, t) ==
    IF fl.loaded THEN fl
    ELSE LET empty == [k \in DOMAIN fl.store |-> Absent]
             base  == [fl EXCEPT !.loaded = TRUE, !.store = empty,
                                 !.removedOnLoad = 0]
         IN  IF fl.disk \in {Absent, BlankFile, JsonNull} THEN base
             ELSE IF fl.disk \in {InvalidJson, Blocked, Partial}
                  THEN saveToDisk(base)
             ELSE LET es == fl.disk.entries
                      dropped == {k \in DOMAIN es :
                                     es[k] # Absent /\ ~Admitted(es[k], t)}
                      loadedFl ==
                          [base EXCEPT
                              !.store = [k \in DOMAIN fl.store |->
                                  IF k \in DOMAIN es /\ Admitted(es[k], t)
                                  THEN Entry(es[k].value, es[k].expiresAt,
                                             IF es[k].key # NoKey
                                             THEN es[k].key ELSE k)
                                  ELSE Absent],
                              !.removedOnLoad = Cardinality(dropped)]
                  IN  IF dropped # {} THEN saveToDisk(loadedFl) ELSE loadedFl

\* the mirror with one key set or deleted
FlatSet(fl, key, entry) == [fl EXCEPT !.store[key] = entry]
FlatDelete(fl, key)     == [fl EXCEPT !.store[key] = Absent]

\* a get that reads the backing file again on every call
Flat_get_rereads(fl0, t, key, d) ==
    LET fl == loadFromDisk([fl0 EXCEPT !.loaded = FALSE], t)
        entry == fl.store[key]
    IN  IF entry = Absent THEN Miss(fl, d)
        ELSE IF isExpired(entry, t) THEN Miss(saveToDisk(FlatDelete(fl, key)), d)
        ELSE Out(fl, OrUndefined(entry.value), 0)

Flat_get(fl0, t, key, d) ==
    LET fl == loadFromDisk(fl0, t)
        entry == fl.store[key]
    IN  IF entry = Absent THEN Miss(fl, d)
        ELSE IF isExpired(entry, t) THEN Miss(saveToDisk(FlatDelete(fl, key)), d)
        ELSE Out(fl, OrUndefined(entry.value), 0)

Flat_pull(fl0, t, key, d) ==
    LET fl == loadFromDisk(fl0, t)
        entry == fl.store[key]
    IN  IF entry = Absent THEN Miss(fl, d)
        ELSE IF isExpired(entry, t) THEN Miss(saveToDisk(FlatDelete(fl, key)), d)
        ELSE Out(saveToDisk(FlatDelete(fl, key)), OrUndefined(entry.value), 0)

\* put that leaves an entry already stored for the key as it is
Flat_put_keep(fl0, t, key, value, seconds) ==
    LET fl == loadFromDisk(fl0, t) IN
    Out(IF fl.store[key] # Absent THEN fl
        ELSE saveToDisk(FlatSet(fl, key,
                 Entry(value, ExpiresAtFor(seconds, t), key))),
        Undef, 0)

Flat_put(fl0, t, key, value, seconds) ==
    LET fl == loadFromDisk(fl0, t) IN
    Out(saveToDisk(FlatSet(fl, key, Entry(value, ExpiresAtFor(seconds, t), key))),
        Undef, 0)

Flat_forever(fl0, t, key, value) == Flat_put(fl0, t, key, value, Undef)

Flat_forget(fl0, t, key) ==
    LET fl == loadFromDisk(fl0, t)
        existed == fl.store[key] # Absent
    IN  IF existed THEN Out(saveToDisk(FlatDelete(fl, key)), TRUE, 0)
        ELSE Out(fl, FALSE, 0)

Flat_flush(fl0, t) ==
    Out([fl0 EXCEPT !.loaded = TRUE,
                    !.store = [k \in DOMAIN fl0.store |-> Absent],
                    !.disk = IF fl0.disk = Blocked THEN Blocked ELSE Absent],
        Undef, 0)

Flat_has(fl0, t, key) ==
    LET fl == loadFromDisk(fl0, t)
        entry == fl.store[key]
    IN  IF entry = Absent THEN Out(fl, FALSE, 0)
        ELSE IF isExpired(entry, t)
             THEN Out(saveToDisk(FlatDelete(fl, key)), FALSE, 0)
        ELSE Out(fl, entry.value # Undef, 0)

Flat_add(fl0, t, key, value, seconds) ==
    LET h == Flat_has(fl0, t, key) IN
    IF h.r THEN Out(h.s, FALSE, 0)
    ELSE Out(Flat_put(h.s, t, key, value, seconds).s, TRUE, 0)

\* remember without the has / get test: the factory runs on every call
Flat_remember_always(fl0, t, key, seconds, factory) ==
    Out(Flat_put(fl0, t, key, factory, seconds).s, factory, 1)

Flat_remember(fl0, t, key, seconds, factory) ==
    LET h == Flat_has(fl0, t, key)
        g == Flat_get(h.s, t, key, Lit(Undef))
    IN  IF h.r /\ g.r # Undef THEN Out(g.s, g.r, 0)
        ELSE Out(Flat_put(IF h.r THEN g.s ELSE h.s, t, key, factory, seconds).s,
                 factory, 1)

Flat_rememberForever(fl0, t, key, factory) ==
    Flat_remember(fl0, t, key, PosInf, factory)

\* keys that lists only the entries that have a value
Flat_keys_valued(fl0, t) ==
    LET fl == loadFromDisk(fl0, t)
        expired == {k \in DOMAIN fl.store :
                       fl.store[k] # Absent /\ isExpired(fl.store[k], t)}
        kept == [fl EXCEPT !.store = [k \in DOMAIN fl.store |->
                    IF k \in expired THEN Absent ELSE fl.store[k]]]
    IN  Out(IF expired # {} THEN saveToDisk(kept) ELSE fl,
            {k \in DOMAIN fl.store :
                /\ fl.store[k] # Absent
                /\ k \notin expired
                /\ fl.store[k].value # Undef},
            0)

Flat_keys(fl0, t) ==
    LET fl == loadFromDisk(fl0, t)
        expired == {k \in DOMAIN fl.store :
                       fl.store[k] # Absent /\ isExpired(fl.store[k], t)}
        kept == [fl EXCEPT !.store = [k \in DOMAIN fl.store |->
                    IF k \in expired THEN Absent ELSE fl.store[k]]]
    IN  Out(IF expired # {} THEN saveToDisk(kept) ELSE fl,
            {k \in DOMAIN fl.store : fl.store[k] # Absent /\ k \notin expired},
            0)

Flat_count(fl0, t) ==
    LET ks == Flat_keys(fl0, t) IN Out(ks.s, Cardinality(ks.r), 0)

Flat_prune(fl0, t) ==
    LET fl == loadFromDisk(fl0, t)
        gone == {k \in DOMAIN fl.store :
                    /\ fl.store[k] # Absent
                    /\ (isExpired(fl.store[k], t) \/ fl.store[k].value = Undef)}
        removed == fl.removedOnLoad + Cardinality(gone)
        pruned == [fl EXCEPT !.removedOnLoad = 0,
                             !.store = [k \in DOMAIN fl.store |->
                                 IF k \in gone THEN Absent ELSE fl.store[k]]]
    IN  Out(IF removed > 0 THEN saveToDisk(pruned) ELSE pruned, removed, 0)

Flat_ttl(fl0, t, key) ==
    LET fl == loadFromDisk(fl0, t)
        entry == fl.store[key]
    IN  IF entry = Absent \/ entry.value = Undef THEN Out(fl, Null, 0)
        ELSE IF entry.expiresAt = NoExpiry THEN Out(fl, Null, 0)
        ELSE IF entry.expiresAt - t <= 0
             THEN Out(saveToDisk(FlatDelete(fl, key)), Null, 0)
        ELSE Out(fl, Num(CeilSeconds(entry.expiresAt - t)), 0)

Flat_touch(fl0, t, key, seconds) ==
    LET fl == loadFromDisk(fl0, t)
        entry == fl.store[key]
    IN  IF entry = Absent \/ entry.value = Undef THEN Out(fl, FALSE, 0)
        ELSE IF isExpired(entry, t)
             THEN Out(saveToDisk(FlatDelete(fl, key)), FALSE, 0)
        ELSE Out(saveToDisk(FlatSet(fl, key,
                     Entry(entry.value, ExpiresAtFor(seconds, t),
                           IF entry.key # NoKey THEN entry.key ELSE key))),
                 TRUE, 0)

Flat_increment(fl0, t, key, amount) ==
    LET fl == loadFromDisk(fl0, t)
        entry == fl.store[key]
        live == entry # Absent /\ ~isExpired(entry, t)
        currentValue == IF live /\ IsNumber(entry.value) THEN entry.value ELSE Num(0)
        expiresAt == IF live THEN entry.expiresAt ELSE NoExpiry
        newValue == Plus(currentValue, amount)
    IN  Out(saveToDisk(FlatSet(fl, key,
                Entry(newValue, expiresAt,
                      IF entry # Absent /\ entry.key # NoKey THEN entry.key ELSE key))),
            newValue, 0)

Flat_decrement(fl0, t, key, amount) == Flat_increment(fl0, t, key, Neg(amount))

(***************************************************************************)
(* size(): the length of the JSON text of the entries, and of the files.   *)
(***************************************************************************)
\* the number of characters of String(n), for the integers of the model
Digits(n) ==
    LET m == IF n < 0 THEN 0 - n ELSE n
        d == IF m < 10 THEN 1 ELSE IF m < 100 THEN 2 ELSE IF m < 1000 THEN 3
             ELSE IF m < 10000 THEN 4 ELSE 5
    IN  IF n < 0 THEN d + 1 ELSE d

\* JSON.stringify(v).length: null, a number, a string of five letters, an
\* object with one one-letter field
TextLength(v) ==
    CASE v.t \in {"null", "NaN", "Infinity"} -> 4
      [] v.t = "number" -> Digits(v.n)
      [] v.t = "string" -> 7
      [] v.t = "object" -> 7

\* JSON.stringify({ value, expiresAt, key }).length; undefined fields are
\* left out
EntryLength(e) ==
    LET value == IF e.value = Undef THEN 0 ELSE 8 + TextLength(e.value)
        expiresAt == IF e.expiresAt = NoExpiry THEN 0 ELSE 12 + Digits(e.expiresAt)
        key == IF e.key = NoKey THEN 0 ELSE 8 + Len(e.key)
        fields == (IF value > 0 THEN 1 ELSE 0) + (IF expiresAt > 0 THEN 1 ELSE 0)
                  + (IF key > 0 THEN 1 ELSE 0)
    IN  2 + value + expiresAt + key + (IF fields > 1 THEN fields - 1 ELSE 0)

\* the length of the members of a JSON object, for the keys ks of es
RECURSIVE MembersLength(_, _)
MembersLength(es, ks) ==
    IF ks = {} THEN 0
    ELSE LET k == CHOOSE x \in ks : TRUE
             member == Len(k) + 3
                       + (IF es[k] = JsonNull THEN 4 ELSE EntryLength(es[k]))
         IN  member + (IF ks = {k} THEN 0 ELSE 1) + MembersLength(es, ks \ {k})

\* fs.statSync(filename).size
Bytes(c) ==
    IF c = Absent THEN 0
    ELSE IF "json" \notin DOMAIN c THEN EntryLength(c)
    ELSE CASE c.json = "object" ->
                2 + MembersLength(c.entries,
                                  {k \in DOMAIN c.entries : c.entries[k] # Absent})
           [] c.json = "null" -> 4
           [] c.json = "directory" -> 4096
           [] OTHER -> 1

RECURSIVE TotalOf(_, _)
TotalOf(lengths, ks) ==
    IF ks = {} THEN 0
    ELSE LET k == CHOOSE x \in ks : TRUE
         IN  lengths[k] + TotalOf(lengths, ks \ {k})

Memory_size(st, t) ==
    Out(st,
        TotalOf([k \in DOMAIN st |->
                    IF st[k] = Absent THEN 0 ELSE EntryLength(st[k])], DOMAIN st),
        0)

File_size(dr, t) ==
    Out(dr, TotalOf([f \in DOMAIN dr |-> Bytes(dr[f])], DOMAIN dr), 0)

\* a size that measures the mirror and not the file
Flat_size_mirror(fl0, t) ==
    LET fl == loadFromDisk(fl0, t)
    IN  Out(fl, Bytes(saveToDisk([fl EXCEPT !.disk = Absent]).disk), 0)

Flat_size(fl0, t) ==
    LET fl == loadFromDisk(fl0, t) IN Out(fl, Bytes(fl.disk), 0)


(***************************************************************************)
(* The batch reads of BaseCacheAdapter, over the get of each store.        *)
(***************************************************************************)
\* const result = {}
EmptyObject == [k \in {} |-> Undef]

\* result[key] = value on an object literal: key becomes an own property
\* holding value, except that "__proto__" reaches the accessor of
\* Object.prototype, which adds no own property
Assign(result, key, value) ==
    IF key = ProtoKey THEN result
    ELSE [k \in DOMAIN result \cup {key} |->
             IF k = key THEN value ELSE result[k]]

\* for (const key of keys) result[key] = this.get(key)
RECURSIVE getEach(_, _, _, _, _)
getEach(kd, st, t, ks, result) ==
    IF ks = <<>> THEN Out(st, result, 0)
    ELSE LET g == CASE kd = "memory" -> Memory_get(st, t, Head(ks), Lit(Undef))
                    [] kd = "file"   -> File_get(st, t, Head(ks), Lit(Undef))
                    [] kd = "flat"   -> Flat_get(st, t, Head(ks), Lit(Undef))
         IN  getEach(kd, g.s, t, Tail(ks), Assign(result, Head(ks), g.r))

BaseCacheAdapter_getMany(kd, st, t, ks) == getEach(kd, st, t, ks, EmptyObject)

\* for (const key of keys) if (this.forget(key)) removed++
RECURSIVE forgetEach(_, _, _, _, _)
forgetEach(kd, st, t, ks, removed) ==
    IF ks = <<>> THEN Out(st, removed, 0)
    ELSE LET f == CASE kd = "memory" -> Memory_forget(st, t, Head(ks))
                    [] kd = "file"   -> File_forget(st, t, Head(ks))
                    [] kd = "flat"   -> Flat_forget(st, t, Head(ks))
         IN  forgetEach(kd, f.s, t, Tail(ks), IF f.r THEN removed + 1 ELSE removed)

\* forgetMany that counts the calls it made
BaseCacheAdapter_forgetMany_calls(kd, st, t, ks) ==
    Out(forgetEach(kd, st, t, ks, 0).s, Len(ks), 0)

BaseCacheAdapter_forgetMany(kd, st, t, ks) == forgetEach(kd, st, t, ks, 0)

\* for (const [key, value] of Object.entries(items)) this.put(key, value, seconds)
\* items: the own properties of the object, as a sequence of <<key, value>>
RECURSIVE putEach(_, _, _, _, _)
putEach(kd, st, t, items, seconds) ==
    IF items = <<>> THEN Out(st, Undef, 0)
    ELSE LET key   == Head(items)[1]
             value == Head(items)[2]
             p == CASE kd = "memory" -> Memory_put(st, t, key, value, seconds)
                    [] kd = "file"   -> File_put(st, t, key, value, seconds)
                    [] kd = "flat"   -> Flat_put(st, t, key, value, seconds)
         IN  putEach(kd, p.s, t, Tail(items), seconds)

BaseCacheAdapter_putMany(kd, st, t, items, seconds) ==
    putEach(kd, st, t, items, seconds)

(***************************************************************************)
(* A call of the contract: [name, key, v, s, d, a, ks]                     *)
(*   v value / factory result, s seconds, d default, a amount, ks keys.    *)
(* CallOn(kd, st, t, c) runs call c on a store of kind kd in state st.     *)
(***************************************************************************)
Call(name, key, v, s, d, a, ks) ==
    [name |-> name, key |-> key, v |-> v, s |-> s, d |-> d, a |-> a, ks |-> ks]

get(key, d)               == Call("get", key, Undef, Undef, d, Undef, <<>>)
pull(key, d)              == Call("pull", key, Undef, Undef, d, Undef, <<>>)
put(key, v, s)            == Call("put", key, v, s, Lit(Undef), Undef, <<>>)
forever(key, v)           == Call("forever", key, v, Undef, Lit(Undef), Undef, <<>>)
forget(key)               == Call("forget", key, Undef, Undef, Lit(Undef), Undef, <<>>)
flush                     == Call("flush", NoKey, Undef, Undef, Lit(Undef), Undef, <<>>)
has(key)                  == Call("has", key, Undef, Undef, Lit(Undef), Undef, <<>>)
add(key, v, s)            == Call("add", key, v, s, Lit(Undef), Undef, <<>>)
remember(key, s, v)       == Call("remember", key, v, s, Lit(Undef), Undef, <<>>)
rememberForever(key, v)   == Call("rememberForever", key, v, Undef, Lit(Undef), Undef, <<>>)
keys                      == Call("keys", NoKey, Undef, Undef, Lit(Undef), Undef, <<>>)
size                      == Call("size", NoKey, Undef, Undef, Lit(Undef), Undef, <<>>)
count                     == Call("count", NoKey, Undef, Undef, Lit(Undef), Undef, <<>>)
prune                     == Call("prune", NoKey, Undef, Undef, Lit(Undef), Undef, <<>>)
ttl(key)                  == Call("ttl", key, Undef, Undef, Lit(Undef), Undef, <<>>)
touch(key, s)             == Call("touch", key, Undef, s, Lit(Undef), Undef, <<>>)
increment(key, a)         == Call("increment", key, Undef, Undef, Lit(Undef), a, <<>>)
decrement(key, a)         == Call("decrement", key, Undef, Undef, Lit(Undef), a, <<>>)
getMany(ks)               == Call("getMany", NoKey, Undef, Undef, Lit(Undef), Undef, ks)
forgetMany(ks)            == Call("forgetMany", NoKey, Undef, Undef, Lit(Undef), Undef, ks)
putMany(items, s)         == Call("putMany", NoKey, Undef, s, Lit(Undef), Undef, items)

Memory_call(st, t, c) ==
    CASE c.name = "get"             -> Memory_get(st, t, c.key, c.d)
      [] c.name = "pull"            -> Memory_pull(st, t, c.key, c.d)
      [] c.name = "put"             -> Memory_put(st, t, c.key, c.v, c.s)
      [] c.name = "forever"         -> Memory_forever(st, t, c.key, c.v)
      [] c.name = "forget"          -> Memory_forget(st, t, c.key)
      [] c.name = "flush"           -> Memory_flush(st, t)
      [] c.name = "has"             -> Memory_has(st, t, c.key)
      [] c.name = "add"             -> Memory_add(st, t, c.key, c.v, c.s)
      [] c.name = "remember"        -> Memory_remember(st, t, c.key, c.s, c.v)
      [] c.name = "rememberForever" -> Memory_rememberForever(st, t, c.key, c.v)
      [] c.name = "keys"            -> Memory_keys(st, t)
      [] c.name = "count"           -> Memory_count(st, t)
      [] c.name = "prune"           -> Memory_prune(st, t)
      [] c.name = "ttl"             -> Memory_ttl(st, t, c.key)
      [] c.name = "touch"           -> Memory_touch(st, t, c.key, c.s)
      [] c.name = "increment"       -> Memory_increment(st, t, c.key, c.a)
      [] c.name = "decrement"       -> Memory_decrement(st, t, c.key, c.a)
      [] c.name = "size"            -> Memory_size(st, t)

File_call(st, t, c) ==
    CASE c.name = "get"             -> File_get(st, t, c.key, c.d)
      [] c.name = "pull"            -> File_pull(st, t, c.key, c.d)
      [] c.name = "put"             -> File_put(st, t, c.key, c.v, c.s)
      [] c.name = "forever"         -> File_forever(st, t, c.key, c.v)
      [] c.name = "forget"          -> File_forget(st, t, c.key)
      [] c.name = "flush"           -> File_flush(st, t)
      [] c.name = "has"             -> File_has(st, t, c.key)
      [] c.name = "add"             -> File_add(st, t, c.key, c.v, c.s)
      [] c.name = "remember"        -> File_remember(st, t, c.key, c.s, c.v)
      [] c.name = "rememberForever" -> File_rememberForever(st, t, c.key, c.v)
      [] c.name = "keys"            -> File_keys(st, t)
      [] c.name = "count"           -> File_count(st, t)
      [] c.name = "prune"           -> File_prune(st, t)
      [] c.name = "ttl"             -> File_ttl(st, t, c.key)
      [] c.name = "touch"           -> File_touch(st, t, c.key, c.s)
      [] c.name = "increment"       -> File_increment(st, t, c.key, c.a)
      [] c.name = "decrement"       -> File_decrement(st, t, c.key, c.a)
      [] c.name = "size"            -> File_size(st, t)

Flat_call(st, t, c) ==
    CASE c.name = "get"             -> Flat_get(st, t, c.key, c.d)
      [] c.name = "pull"            -> Flat_pull(st, t, c.key, c.d)
      [] c.name = "put"             -> Flat_put(st, t, c.key, c.v, c.s)
      [] c.name = "forever"         -> Flat_forever(st, t, c.key, c.v)
      [] c.name = "forget"          -> Flat_forget(st, t, c.key)
      [] c.name = "flush"           -> Flat_flush(st, t)
      [] c.name = "has"             -> Flat_has(st, t, c.key)
      [] c.name = "add"             -> Flat_add(st, t, c.key, c.v, c.s)
      [] c.name = "remember"        -> Flat_remember(st, t, c.key, c.s, c.v)
      [] c.name = "rememberForever" -> Flat_rememberForever(st, t, c.key, c.v)
      [] c.name = "keys"            -> Flat_keys(st, t)
      [] c.name = "count"           -> Flat_count(st, t)
      [] c.name = "prune"           -> Flat_prune(st, t)
      [] c.name = "ttl"             -> Flat_ttl(st, t, c.key)
      [] c.name = "touch"           -> Flat_touch(st, t, c.key, c.s)
      [] c.name = "increment"       -> Flat_increment(st, t, c.key, c.a)
      [] c.name = "decrement"       -> Flat_decrement(st, t, c.key, c.a)
      [] c.name = "size"            -> Flat_size(st, t)

CallOn(kd, st, t, c) ==
    CASE kd = "memory" -> Memory_call(st, t, c)
      [] kd = "file"   -> File_call(st, t, c)
      [] kd = "flat"   -> Flat_call(st, t, c)

(***************************************************************************)
(* The instance under test.                                                *)
(***************************************************************************)
Kinds     == {"memory", "file", "flat"}
\* "x".repeat(201): a key of more than MAX_KEY_LENGTH characters
LongKey   == "xxxxxxxxxxxxxxxxxxxxxxxxxxxxxxxxxxxxxxxxxxxxxxxxxxxxxxxxxxxxxxxxxxxxxxxxxxxxxxxxxxxxxxxxxxxxxxxxxxxxxxxxxxxxxxxxxxxxxxxxxxxxxxxxxxxxxxxxxxxxxxxxxxxxxxxxxxxxxxxxxxxxxxxxxxxxxxxxxxxxxxxxxxxxxxxxxxxxxxxxx"
AllKeys   == {"a", "b/c", ProtoKey, LongKey}
Keys      == {"a"}                     \* the keys the calls of Spec address
Filenames == {pathForKey(k) : k \in AllKeys}

PutValues == {Undef, Null, Num(0), Hello, Obj(0), NaN}
Seconds   == {Undef, NaN, PosInf, Num(0 - 1), Num(0), Num(1), Num(SecDenom)}
                          \* omitted, NaN, Infinity, negative, 0, a fraction, 1 second
Defaults  == {Lit(Undef), Lit(Gone), Fn(Gone), FnThrows}
Amounts   == {Num(1)}
AddValues  == {Undef, Null, Hello}     \* what add and remember are given
AddSeconds == {Undef, Num(0), Num(1)}

EmptyMap  == [k \in AllKeys |-> Absent]
EmptyDir  == [f \in Filenames |-> Absent]
NewFlat   == [store |-> EmptyMap, loaded |-> FALSE, removedOnLoad |-> 0,
              disk |-> Absent]

\* the state of the store of the instance under test
Store == CASE kind = "memory" -> mem [] kind = "file" -> dir [] kind = "flat" -> flat

\* what a store of kind kd in state st physically holds for key: the map
\* entry, the content of the key's file, the mirror's entry (the document's
\* entry while the instance has not loaded)
Held(kd, st, key) ==
    CASE kd = "memory" -> st[key]
      [] kd = "file"   -> st[pathForKey(key)]
      [] kd = "flat"   ->
            IF st.loaded THEN st.store[key]
            ELSE IF IsDoc(st.disk) THEN st.disk.entries[key]
            ELSE Absent

\* the flat file's entry for key, Absent when the file holds none
OnDisk(fl, key) == IF IsDoc(fl.disk) THEN fl.disk.entries[key] ELSE Absent

\* how the entry held for key stands at time t
Standing(kd, st, t, key) ==
    LET e == Held(kd, st, key) IN
    IF kd = "flat" /\ ~st.loaded /\ st.disk \in {InvalidJson, JsonNull}
    THEN "malformed"
    ELSE IF kd = "flat" /\ ~st.loaded /\ st.disk = Blocked THEN "unreadable"
    ELSE IF e = Absent THEN "absent"
    ELSE IF e = Blocked THEN "unreadable"
    ELSE IF e = InvalidJson \/ e = JsonNull THEN "malformed"
    ELSE IF isExpired(e, t) THEN "expired"
    ELSE IF e.value = Undef THEN "novalue"
    ELSE "live"

\* how every key stood before a call
Before(kd, st, t) == [k \in AllKeys |-> Standing(kd, st, t, k)]
Unknown == [k \in AllKeys |-> "none"]

Started == [name |-> "new", key |-> NoKey, was |-> Unknown]

\* op: the call that ran last, with how the keys stood before it
Noted(c, was, x) == [name |-> c.name, key |-> c.key, v |-> c.v, s |-> c.s,
                     d |-> c.d, a |-> c.a, was |-> was, threw |-> x]

\* the store of the instance under test becomes s
SetStore(s) ==
    /\ mem'  = IF kind = "memory" THEN s ELSE mem
    /\ dir'  = IF kind = "file" THEN s ELSE dir
    /\ flat' = IF kind = "flat" THEN s ELSE flat

\* call c runs on the instance under test, with outcome out
Do(c, out) ==
    /\ SetStore(out.s)
    /\ op'    = Noted(c, Before(kind, Store, now), out.x)
    /\ ret'   = out.r
    /\ calls' = out.c
    /\ UNCHANGED <<kind, now>>

\* a counter result the model keeps: within the bound, or not finite
InRange(out) ==
    IsFinite(out.r) => (out.r.n <= MaxCount /\ 0 - out.r.n <= MaxCount)

NoScenario == [todo |-> <<>>, outs |-> <<>>]
NoTasks    == [initial |-> Undef, task |-> <<>>]

\* a store of one of the three kinds has just been constructed
Constructed ==
    /\ kind \in Kinds
    /\ now = Epoch
    /\ mem = EmptyMap
    /\ dir = EmptyDir
    /\ flat = NewFlat
    /\ op = Started
    /\ ret = Undef
    /\ calls = 0

Init == Constructed /\ sc = NoScenario /\ par = NoTasks

Get(key, d) ==
    LET out == CASE kind = "memory" -> Memory_get(mem, now, key, d)
                 [] kind = "file"   -> File_get(dir, now, key, d)
                 [] kind = "flat"   -> Flat_get(flat, now, key, d)
    IN  /\ Do(get(key, d), out)
        /\ UNCHANGED <<sc, par>>

Pull(key, d) ==
    LET out == CASE kind = "memory" -> Memory_pull(mem, now, key, d)
                 [] kind = "file"   -> File_pull(dir, now, key, d)
                 [] kind = "flat"   -> Flat_pull(flat, now, key, d)
    IN  /\ Do(pull(key, d), out)
        /\ UNCHANGED <<sc, par>>

Put(key, v, s) ==
    LET out == CASE kind = "memory" -> Memory_put(mem, now, key, v, s)
                 [] kind = "file"   -> File_put(dir, now, key, v, s)
                 [] kind = "flat"   -> Flat_put(flat, now, key, v, s)
    IN  /\ Do(put(key, v, s), out)
        /\ UNCHANGED <<sc, par>>

Forever(key, v) ==
    LET out == CASE kind = "memory" -> Memory_forever(mem, now, key, v)
                 [] kind = "file"   -> File_forever(dir, now, key, v)
                 [] kind = "flat"   -> Flat_forever(flat, now, key, v)
    IN  /\ Do(forever(key, v), out)
        /\ UNCHANGED <<sc, par>>

Forget(key) ==
    LET out == CASE kind = "memory" -> Memory_forget(mem, now, key)
                 [] kind = "file"   -> File_forget(dir, now, key)
                 [] kind = "flat"   -> Flat_forget(flat, now, key)
    IN  /\ Do(forget(key), out)
        /\ UNCHANGED <<sc, par>>

Flush ==
    LET out == CASE kind = "memory" -> Memory_flush(mem, now)
                 [] kind = "file"   -> File_flush(dir, now)
                 [] kind = "flat"   -> Flat_flush(flat, now)
    IN  /\ Do(flush, out)
        /\ UNCHANGED <<sc, par>>

Has(key) ==
    LET out == CASE kind = "memory" -> Memory_has(mem, now, key)
                 [] kind = "file"   -> File_has(dir, now, key)
                 [] kind = "flat"   -> Flat_has(flat, now, key)
    IN  /\ Do(has(key), out)
        /\ UNCHANGED <<sc, par>>

Add(key, v, s) ==
    LET out == CASE kind = "memory" -> Memory_add(mem, now, key, v, s)
                 [] kind = "file"   -> File_add(dir, now, key, v, s)
                 [] kind = "flat"   -> Flat_add(flat, now, key, v, s)
    IN  /\ Do(add(key, v, s), out)
        /\ UNCHANGED <<sc, par>>

Remember(key, s, v) ==
    LET out == CASE kind = "memory" -> Memory_remember(mem, now, key, s, v)
                 [] kind = "file"   -> File_remember(dir, now, key, s, v)
                 [] kind = "flat"   -> Flat_remember(flat, now, key, s, v)
    IN  /\ Do(remember(key, s, v), out)
        /\ UNCHANGED <<sc, par>>

RememberForever(key, v) ==
    LET out == CASE kind = "memory" -> Memory_rememberForever(mem, now, key, v)
                 [] kind = "file"   -> File_rememberForever(dir, now, key, v)
                 [] kind = "flat"   -> Flat_rememberForever(flat, now, key, v)
    IN  /\ Do(rememberForever(key, v), out)
        /\ UNCHANGED <<sc, par>>

KeysOp ==
    LET out == CASE kind = "memory" -> Memory_keys(mem, now)
                 [] kind = "file"   -> File_keys(dir, now)
                 [] kind = "flat"   -> Flat_keys(flat, now)
    IN  /\ Do(keys, out)
        /\ UNCHANGED <<sc, par>>

CountOp ==
    LET out == CASE kind = "memory" -> Memory_count(mem, now)
                 [] kind = "file"   -> File_count(dir, now)
                 [] kind = "flat"   -> Flat_count(flat, now)
    IN  /\ Do(count, out)
        /\ UNCHANGED <<sc, par>>

Size ==
    LET out == CASE kind = "memory" -> Memory_size(mem, now)
                 [] kind = "file"   -> File_size(dir, now)
                 [] kind = "flat"   -> Flat_size(flat, now)
    IN  /\ Do(size, out)
        /\ UNCHANGED <<sc, par>>

Prune ==
    LET out == CASE kind = "memory" -> Memory_prune(mem, now)
                 [] kind = "file"   -> File_prune(dir, now)
                 [] kind = "flat"   -> Flat_prune(flat, now)
    IN  /\ Do(prune, out)
        /\ UNCHANGED <<sc, par>>

Ttl(key) ==
    LET out == CASE kind = "memory" -> Memory_ttl(mem, now, key)
                 [] kind = "file"   -> File_ttl(dir, now, key)
                 [] kind = "flat"   -> Flat_ttl(flat, now, key)
    IN  /\ Do(ttl(key), out)
        /\ UNCHANGED <<sc, par>>

Touch(key, s) ==
    LET out == CASE kind = "memory" -> Memory_touch(mem, now, key, s)
                 [] kind = "file"   -> File_touch(dir, now, key, s)
                 [] kind = "flat"   -> Flat_touch(flat, now, key, s)
    IN  /\ Do(touch(key, s), out)
        /\ UNCHANGED <<sc, par>>

Increment(key, a) ==
    LET out == CASE kind = "memory" -> Memory_increment(mem, now, key, a)
                 [] kind = "file"   -> File_increment(dir, now, key, a)
                 [] kind = "flat"   -> Flat_increment(flat, now, key, a)
    IN  /\ InRange(out)
        /\ Do(increment(key, a), out)
        /\ UNCHANGED <<sc, par>>

Decrement(key, a) ==
    LET out == CASE kind = "memory" -> Memory_decrement(mem, now, key, a)
                 [] kind = "file"   -> File_decrement(dir, now, key, a)
                 [] kind = "flat"   -> Flat_decrement(flat, now, key, a)
    IN  /\ InRange(out)
        /\ Do(decrement(key, a), out)
        /\ UNCHANGED <<sc, par>>

\* time passes
Tick ==
    /\ now < Epoch + MaxTicks * TickMs
    /\ now' = now + TickMs
    /\ op' = [name |-> "tick", key |-> NoKey, was |-> Unknown]
    /\ ret' = Undef
    /\ calls' = 0
    /\ UNCHANGED <<kind, mem, dir, flat, sc, par>>

\* something other than the cache writes a file of the cache directory
ForeignFiles == {InvalidJson, JsonNull, Entry(Undef, NoExpiry, NoKey)}

ExternalWrite(key, content) ==
    /\ kind = "file"
    /\ dir' = [dir EXCEPT ![pathForKey(key)] = content]
    /\ op' = [name |-> "external", key |-> key, was |-> Unknown]
    /\ ret' = Undef
    /\ calls' = 0
    /\ UNCHANGED <<kind, now, mem, flat, sc, par>>

\* something other than the cache overwrites the flat file
ForeignDocuments == {InvalidJson, JsonNull, BlankFile}

ExternalRewrite(content) ==
    /\ kind = "flat"
    /\ flat' = [flat EXCEPT !.disk = content]
    /\ op' = [name |-> "external", key |-> NoKey, was |-> Unknown]
    /\ ret' = Undef
    /\ calls' = 0
    /\ UNCHANGED <<kind, now, mem, dir, sc, par>>

\* a new FlatFileCache is constructed on the same path (a restart)
Reopen ==
    /\ kind = "flat"
    /\ flat' = [NewFlat EXCEPT !.disk = flat.disk]
    /\ op' = Started
    /\ ret' = Undef
    /\ calls' = 0
    /\ UNCHANGED <<kind, now, mem, dir, sc, par>>

Next ==
    \/ \E key \in Keys, d \in Defaults : Get(key, d)
    \/ \E key \in Keys, d \in Defaults : Pull(key, d)
    \/ \E key \in Keys, v \in PutValues, s \in Seconds : Put(key, v, s)
    \/ \E key \in Keys, v \in PutValues : Forever(key, v)
    \/ \E key \in Keys : Forget(key)
    \/ Flush
    \/ \E key \in Keys : Has(key)
    \/ \E key \in Keys, v \in AddValues, s \in AddSeconds : Add(key, v, s)
    \/ \E key \in Keys, v \in AddValues, s \in AddSeconds : Remember(key, s, v)
    \/ \E key \in Keys, v \in AddValues : RememberForever(key, v)
    \/ KeysOp
    \/ CountOp
    \/ Prune
    \/ \E key \in Keys : Ttl(key)
    \/ \E key \in Keys, s \in Seconds : Touch(key, s)
    \/ \E key \in Keys, a \in Amounts : Increment(key, a)
    \/ \E key \in Keys, a \in Amounts : Decrement(key, a)
    \/ Tick
    \/ \E key \in Keys, c \in ForeignFiles : ExternalWrite(key, c)
    \/ \E c \in ForeignDocuments : ExternalRewrite(c)
    \/ Reopen

Spec == Init /\ [][Next]_vars

(***************************************************************************)
(* Scenarios: one caller makes a fixed sequence of calls, one after the    *)
(* other, while time passes between them.  sc.todo is what remains of the  *)
(* sequence; sc.outs records, for each call made, the call, the clock, the *)
(* entry held for its key before it, its result and the number of factory  *)
(* invocations it made.                                                    *)
(***************************************************************************)
FactoryValues == {Hello, Num(0), Null, Undef, NaN}
RememberSeconds == {Num(1), Num(SecDenom)}
CounterValues == {Num(0), Num(1), Num(0 - 1)}
CounterAmounts == {Num(1), Num(2), Num(0 - 1), PosInf}

\* N sequential remember calls with a factory that returns v the first time
\* it is invoked and other values afterwards, on a missing key and on a key
\* that put has written
RememberScripts ==
    { <<remember("a", s, v), remember("a", s, Fresh), remember("a", s, Gone)>> :
        s \in RememberSeconds, v \in FactoryValues }
    \cup
    { <<put("a", v, s), remember("a", s, Fresh), remember("a", s, Gone)>> :
        s \in RememberSeconds, v \in FactoryValues }

\* put(k, n); increment(k, d); get(k); decrement(k, d); get(k)
CounterScripts ==
    { <<put("a", n, Undef), increment("a", d), get("a", Lit(Undef)),
        decrement("a", d), get("a", Lit(Undef))>> :
        n \in CounterValues, d \in CounterAmounts }

Scripts == RememberScripts \cup CounterScripts

ScenarioInit ==
    /\ Constructed
    /\ sc \in {[todo |-> script, outs |-> <<>>] : script \in Scripts}
    /\ par = NoTasks

\* the caller makes the next call of the sequence
Run ==
    /\ sc.todo # <<>>
    /\ Do(Head(sc.todo), CallOn(kind, Store, now, Head(sc.todo)))
    /\ sc' = [todo |-> Tail(sc.todo),
              outs |-> Append(sc.outs,
                         [c |-> Head(sc.todo), t |-> now,
                          e |-> Held(kind, Store, Head(sc.todo).key),
                          r |-> ret', n |-> calls'])]
    /\ UNCHANGED par

ScenarioNext == Run \/ Tick

Scenario == ScenarioInit /\ [][ScenarioNext]_vars

(***************************************************************************)
(* The async stores (memory.ts 506-966, part_006 328-856): several         *)
(* increment / decrement calls on one key are in flight in one process.    *)
(* A call runs without interruption up to its next await, so its body is a *)
(* sequence of segments; the event loop picks which call runs its next     *)
(* segment.                                                                *)
(*   "update"  read the entry, add the amount, write the entry             *)
(*   "resume"  continue after `await this.increment(...)` and return       *)
(*   "read"    read the entry                                              *)
(*   "write"   add the amount to what was read and write the entry         *)
(* par.task[i] = [c |-> the call, pc |-> its next segment, seen |-> the    *)
(* store as it read it, r |-> what it returns].                            *)
(***************************************************************************)
\* increment that awaits between reading the entry and writing it
Program_awaiting(c) ==
    IF c.name = "decrement" THEN <<"read", "write", "resume">>
    ELSE <<"read", "write">>

\* async increment has no await in its body; async decrement is
\* `return await this.increment(key, -amount)`
Program(c) ==
    IF c.name = "decrement" THEN <<"update", "resume">> ELSE <<"update">>

AsyncKinds   == {"memory", "flat"}
CounterCalls == {increment("a", Num(1)), increment("a", Num(2)),
                 decrement("a", Num(1))}
Initials     == {Undef, Num(1)}      \* no entry, or a stored number

\* the store of kind kd after put(k, v) on a new instance, or new when v is
\* undefined
Primed(kd, v) ==
    LET new == IF kd = "memory" THEN EmptyMap ELSE NewFlat IN
    IF v = Undef THEN new ELSE CallOn(kd, new, Epoch, put("a", v, Undef)).s

AsyncInit ==
    /\ kind \in AsyncKinds
    /\ now = Epoch
    /\ \E v \in Initials :
          /\ mem = IF kind = "memory" THEN Primed("memory", v) ELSE EmptyMap
          /\ flat = IF kind = "flat" THEN Primed("flat", v) ELSE NewFlat
          /\ \E cs \in [1 .. MaxTasks -> CounterCalls] :
                par = [initial |-> v,
                       task |-> [i \in 1 .. MaxTasks |->
                                   [c |-> cs[i], pc |-> 1, seen |-> Undef,
                                    r |-> Undef]]]
    /\ dir = EmptyDir
    /\ op = Started
    /\ ret = Undef
    /\ calls = 0
    /\ sc = NoScenario

\* store st of kind kd with the entry of key replaced by e
WithEntry(kd, st, t, key, e) ==
    CASE kd = "memory" -> [st EXCEPT ![key] = e]
      [] kd = "file"   -> [st EXCEPT ![pathForKey(key)] = e]
      [] kd = "flat"   -> saveToDisk(FlatSet(loadFromDisk(st, t), key, e))

\* the event loop runs the next segment of call i
Step(i) ==
    LET task == par.task[i]
        seg  == Program(task.c)[task.pc]
        c    == task.c
        from == IF seg = "write" THEN task.seen ELSE Store
        out  == CallOn(kind, from, now, c)
    IN  /\ task.pc <= Len(Program(task.c))
        /\ CASE seg = "update" -> SetStore(out.s)
             [] seg = "write"  ->
                  SetStore(WithEntry(kind, Store, now, c.key,
                                     Held(kind, out.s, c.key)))
             [] OTHER -> UNCHANGED <<mem, dir, flat>>
        /\ par' = [par EXCEPT
                     !.task[i].pc = task.pc + 1,
                     !.task[i].seen = IF seg = "read" THEN Store ELSE task.seen,
                     !.task[i].r = IF seg \in {"update", "write"} THEN out.r
                                   ELSE task.r]
        /\ UNCHANGED <<kind, now, op, ret, calls, sc>>

AsyncNext == \E i \in 1 .. MaxTasks : Step(i)

Async == AsyncInit /\ [][AsyncNext]_vars

(***************************************************************************)
(* Check-then-write calls on the async stores: add (memory.ts 659-663,     *)
(* part_006 495-499), remember (memory.ts 680-689, part_006 514-523) and   *)
(* put, two of them in flight on one key.  Each awaits the calls it makes, *)
(* so another call can run between them.  par.task[i].pc is where call i   *)
(* stands:                                                                 *)
(*   "has"      about to run `await this.has(key)`                         *)
(*   "get"      has answered true; about to run `await this.get(key)`      *)
(*   "factory"  the factory has been invoked and is pending; when it       *)
(*              resolves, `await this.put(key, value, seconds)` runs       *)
(*   "put"      about to run `await this.put(key, value, seconds)`         *)
(*   "done"     returned r (what follows the await of put only returns)    *)
(* h is what has answered, n the number of factory invocations made, and   *)
(* par.order lists the calls in the order in which their put ran.          *)
(***************************************************************************)
RaceCalls == {add("a", Hello, Undef), add("a", Fresh, Undef),
              remember("a", Num(SecDenom), Hello),
              remember("a", Num(SecDenom), Fresh),
              put("a", Gone, Undef)}
RaceInitials == {Undef, Null, Gone}   \* no entry, a stored null, a stored string

Issued(c) ==
    [c |-> c, pc |-> IF c.name = "put" THEN "put" ELSE "has",
     h |-> FALSE, r |-> Undef, n |-> 0]

RaceInit ==
    /\ kind \in AsyncKinds
    /\ now = Epoch
    /\ \E v \in RaceInitials :
          /\ mem = IF kind = "memory" THEN Primed("memory", v) ELSE EmptyMap
          /\ flat = IF kind = "flat" THEN Primed("flat", v) ELSE NewFlat
          /\ \E c1, c2 \in RaceCalls :
                par = [initial |-> v, task |-> <<Issued(c1), Issued(c2)>>,
                       order |-> <<>>]
    /\ dir = EmptyDir
    /\ op = Started
    /\ ret = Undef
    /\ calls = 0
    /\ sc = NoScenario

\* the event loop resumes call i, which runs up to its next await
Turn(i) ==
    LET task == par.task[i]
        c    == task.c
        hs   == IF kind = "memory" THEN Memory_has(mem, now, c.key)
                                   ELSE Flat_has(flat, now, c.key)
        gt   == IF kind = "memory" THEN Memory_get(mem, now, c.key, Lit(Undef))
                                   ELSE Flat_get(flat, now, c.key, Lit(Undef))
        pt   == IF kind = "memory" THEN Memory_put(mem, now, c.key, c.v, c.s)
                                   ELSE Flat_put(flat, now, c.key, c.v, c.s)
    IN  /\ task.pc # "done"
        /\ CASE task.pc = "has" ->
                  /\ SetStore(hs.s)
                  /\ par' = [par EXCEPT !.task[i] =
                        IF c.name = "add"
                        THEN [task EXCEPT !.h = hs.r,
                                          !.pc = IF hs.r THEN "done" ELSE "put",
                                          !.r = IF hs.r THEN FALSE ELSE Undef]
                        ELSE [task EXCEPT !.h = hs.r,
                                          !.pc = IF hs.r THEN "get" ELSE "factory",
                                          !.n = IF hs.r THEN 0 ELSE 1]]
             [] task.pc = "get" ->
                  /\ SetStore(gt.s)
                  /\ par' = [par EXCEPT !.task[i] =
                        IF gt.r # Undef
                        THEN [task EXCEPT !.pc = "done", !.r = gt.r]
                        ELSE [task EXCEPT !.pc = "factory", !.n = 1]]
             [] task.pc \in {"factory", "put"} ->
                  /\ SetStore(pt.s)
                  /\ par' = [par EXCEPT
                        !.task[i].pc = "done",
                        !.task[i].r = CASE c.name = "add" -> TRUE
                                        [] c.name = "remember" -> c.v
                                        [] OTHER -> Undef,
                        !.order = Append(par.order, i)]
        /\ UNCHANGED <<kind, now, op, ret, calls, sc>>

RaceNext == \E i \in DOMAIN par.task : Turn(i)

Race == RaceInit /\ [][RaceNext]_vars

\* ---- Two keys in one store (specification Pair): the calls that act on
\* one key beside another, and those that scan every entry.

\* an entry is written with or without a value, to expire in a second or never
PairValues  == {Undef, Hello}
PairSeconds == {Undef, Num(SecDenom)}

\* the keys that are written, and the key lists that are read in one batch:
\* none, one key, two keys, a key twice, and a key that was never written
PairKeys == {"a", "b/c"}
KeyLists == {<<>>, <<"a">>, <<"a", "b/c">>, <<"b/c", "a", "b/c">>,
             <<"a", ProtoKey>>}

GetMany(ks) ==
    LET out == BaseCacheAdapter_getMany(kind, Store, now, ks)
    IN  /\ Do(getMany(ks), out)
        /\ UNCHANGED <<sc, par>>

ForgetMany(ks) ==
    LET out == BaseCacheAdapter_forgetMany(kind, Store, now, ks)
    IN  /\ Do(forgetMany(ks), out)
        /\ UNCHANGED <<sc, par>>

\* the objects passed to putMany: no property, one, and two
ItemLists == {<<>>, <<<<"a", Hello>>>>, <<<<"b/c", Undef>>>>,
              <<<<"a", Hello>>, <<"b/c", Hello>>>>}

PutMany(items, s) ==
    LET out == BaseCacheAdapter_putMany(kind, Store, now, items, s)
    IN  /\ Do(putMany(items, s), out)
        /\ UNCHANGED <<sc, par>>

PairNext ==
    \/ \E key \in PairKeys, v \in PairValues, s \in PairSeconds : Put(key, v, s)
    \/ \E key \in PairKeys : Forget(key)
    \/ \E ks \in KeyLists : GetMany(ks)
    \/ \E ks \in KeyLists : ForgetMany(ks)
    \/ \E items \in ItemLists, s \in PairSeconds : PutMany(items, s)
    \/ Flush
    \/ KeysOp
    \/ CountOp
    \/ Prune
    \/ Tick
    \/ \E key \in PairKeys : ExternalWrite(key, InvalidJson)
    \/ Reopen

Pair == Init /\ [][PairNext]_vars

(***************************************************************************)
(* Faulty: the calls on one key while the storage under the store fails.   *)
(* A directory made at the path of the key's file (tests, part_008 94-103) *)
(* makes every read, write and unlink of that path fail; a directory at    *)
(* the path of the flat file makes every save of the mirror fail.          *)
(***************************************************************************)
FaultyValues   == {Hello, Num(1)}
FaultySeconds  == {Undef, Num(SecDenom)}
FaultyDefaults == {Lit(Gone), Fn(Gone)}

\* fs.mkdirSync(filename): a directory takes the place of the key's file
Obstruct(key) ==
    /\ kind = "file"
    /\ dir[pathForKey(key)] # Blocked
    /\ dir' = [dir EXCEPT ![pathForKey(key)] = Blocked]
    /\ op' = [name |-> "obstruct", key |-> key, was |-> Unknown]
    /\ ret' = Undef
    /\ calls' = 0
    /\ UNCHANGED <<kind, now, mem, flat, sc, par>>

\* a directory takes the place of the flat file
ObstructTarget ==
    /\ kind = "flat"
    /\ flat.disk # Blocked
    /\ flat' = [flat EXCEPT !.disk = Blocked]
    /\ op' = [name |-> "obstruct", key |-> NoKey, was |-> Unknown]
    /\ ret' = Undef
    /\ calls' = 0
    /\ UNCHANGED <<kind, now, mem, dir, sc, par>>

\* the directory in the way is removed again
Clear ==
    /\ \/ /\ kind = "file"
          /\ \E f \in DOMAIN dir : dir[f] = Blocked
          /\ dir' = [f \in DOMAIN dir |->
                        IF dir[f] = Blocked THEN Absent ELSE dir[f]]
          /\ flat' = flat
       \/ /\ kind = "flat"
          /\ flat.disk = Blocked
          /\ flat' = [flat EXCEPT !.disk = Absent]
          /\ dir' = dir
    /\ op' = [name |-> "clear", key |-> NoKey, was |-> Unknown]
    /\ ret' = Undef
    /\ calls' = 0
    /\ UNCHANGED <<kind, now, mem, sc, par>>

FaultyNext ==
    \/ \E key \in Keys, d \in FaultyDefaults : Get(key, d)
    \/ \E key \in Keys, d \in FaultyDefaults : Pull(key, d)
    \/ \E key \in Keys, v \in FaultyValues, s \in FaultySeconds : Put(key, v, s)
    \/ \E key \in Keys, v \in FaultyValues : Forever(key, v)
    \/ \E key \in Keys : Forget(key)
    \/ Flush
    \/ \E key \in Keys : Has(key)
    \/ \E key \in Keys, v \in FaultyValues, s \in FaultySeconds : Add(key, v, s)
    \/ \E key \in Keys, v \in FaultyValues, s \in FaultySeconds :
          Remember(key, s, v)
    \/ Prune
    \/ \E key \in Keys : Ttl(key)
    \/ \E key \in Keys, s \in FaultySeconds : Touch(key, s)
    \/ \E key \in Keys, a \in Amounts : Increment(key, a)
    \/ \E key \in Keys, a \in Amounts : Decrement(key, a)
    \/ Tick
    \/ \E key \in Keys, c \in {InvalidJson, JsonNull} : ExternalWrite(key, c)
    \/ \E c \in {InvalidJson, JsonNull} : ExternalRewrite(c)
    \/ \E key \in Keys : Obstruct(key)
    \/ ObstructTarget
    \/ Clear
    \/ Reopen

Faulty == Init /\ [][FaultyNext]_vars

(***************************************************************************)
(* Restart: a store is written and read, and a new FlatFileCache is        *)
(* constructed on the same path; nothing else touches the storage and no   *)
(* write fails.                                                            *)
(***************************************************************************)
RestartKeys    == {"a", ProtoKey}
RestartValues  == {Hello, NaN}
RestartSeconds == {Undef, Num(SecDenom)}

RestartNext ==
    \/ \E key \in RestartKeys, v \in RestartValues, s \in RestartSeconds :
          Put(key, v, s)
    \/ \E key \in RestartKeys : Get(key, Lit(Undef))
    \/ \E key \in RestartKeys : Ttl(key)
    \/ \E key \in RestartKeys : Forget(key)
    \/ \E key \in RestartKeys, s \in RestartSeconds : Touch(key, s)
    \/ Prune
    \/ Tick
    \/ Reopen

Restart == Init /\ [][RestartNext]_vars

(***************************************************************************)
(* Atomic: saveToDisk of the FlatFileCache taken step by step: the mirror  *)
(* is written to the temp file, and the temp file is renamed over the      *)
(* target.  The process may end at any point, in the middle of the write   *)
(* too, and a new instance is then constructed on the same path.           *)
(* par = [pc |-> where the instance stands, temp |-> the temp file,        *)
(*        last |-> the document of the last save that completed]           *)
(***************************************************************************)
\* this.filePath
FilePath == "cache.json"

\* a save that writes the target in place
TempPath_target == FilePath

\* const tempPath = `${this.filePath}.tmp`
TempPath == FilePath \o ".tmp"

\* JSON.stringify(payload) of the mirror of fl
Serialized(fl) == saveToDisk([fl EXCEPT !.disk = Absent]).disk

AtomicValues  == {Hello, Num(1)}
AtomicSeconds == {Undef, Num(SecDenom)}

AtomicInit ==
    /\ Constructed
    /\ kind = "flat"
    /\ sc = NoScenario
    /\ par = [pc |-> "idle", temp |-> Absent, last |-> Absent]

\* a step of the instance: the mirror becomes store, the instance goes to pc
Moves(name, fl, pc) ==
    /\ flat' = fl
    /\ par' = [par EXCEPT !.pc = pc]
    /\ op' = [name |-> name, key |-> NoKey, was |-> Unknown]
    /\ ret' = Undef
    /\ calls' = 0
    /\ UNCHANGED <<kind, now, mem, dir, sc>>

\* loadFromDisk up to its saveToDisk, which it calls when dirty
Load ==
    /\ par.pc = "idle"
    /\ ~flat.loaded
    /\ LET fl == loadFromDisk(flat, now)
       IN  Moves("load", [fl EXCEPT !.disk = flat.disk],
                 IF fl.disk # flat.disk THEN "write" ELSE "idle")

\* put, up to its saveToDisk
StartPut(key, v, s) ==
    /\ par.pc = "idle"
    /\ flat.loaded
    /\ Moves("put", [Flat_put(flat, now, key, v, s).s EXCEPT !.disk = flat.disk],
            "write")

\* forget of a key the mirror holds, up to its saveToDisk
StartForget(key) ==
    /\ par.pc = "idle"
    /\ flat.loaded
    /\ flat.store[key] # Absent
    /\ Moves("forget", [Flat_forget(flat, now, key).s EXCEPT !.disk = flat.disk],
            "write")

\* fs.writeFileSync(tempPath, serialized, "utf8")
WriteTemp ==
    /\ par.pc = "write"
    /\ flat' = IF TempPath = FilePath
               THEN [flat EXCEPT !.disk = Serialized(flat)] ELSE flat
    /\ par' = [par EXCEPT !.pc = "rename",
                          !.temp = IF TempPath = FilePath THEN par.temp
                                   ELSE Serialized(flat)]
    /\ op' = [name |-> "write", key |-> NoKey, was |-> Unknown]
    /\ ret' = Undef
    /\ calls' = 0
    /\ UNCHANGED <<kind, now, mem, dir, sc>>

\* fs.renameSync(tempPath, this.filePath): the save has completed
Rename ==
    /\ par.pc = "rename"
    /\ LET moved == IF TempPath = FilePath THEN flat.disk ELSE par.temp
       IN  /\ flat' = [flat EXCEPT !.disk = moved]
           /\ par' = [pc |-> "idle", temp |-> Absent, last |-> moved]
    /\ op' = [name |-> "rename", key |-> NoKey, was |-> Unknown]
    /\ ret' = Undef
    /\ calls' = 0
    /\ UNCHANGED <<kind, now, mem, dir, sc>>

\* the write or the rename fails: saveToDisk catches the error
SaveFails ==
    /\ par.pc \in {"write", "rename"}
    /\ Moves("failed", flat, "idle")

\* flush: the mirror is cleared and the target unlinked
StartFlush ==
    /\ par.pc = "idle"
    /\ Moves("flush", Flat_flush(flat, now).s, "idle")

\* the process ends, with the write of the temp file cut short when cut, and
\* a new instance is constructed on the path
Crash(cut) ==
    /\ cut => par.pc = "write"
    /\ flat' = [NewFlat EXCEPT
                   !.disk = IF cut /\ TempPath = FilePath THEN Partial
                            ELSE flat.disk]
    /\ par' = [par EXCEPT
                  !.pc = "idle",
                  !.temp = IF cut /\ TempPath # FilePath THEN Partial
                           ELSE par.temp]
    /\ op' = [name |-> "crash", key |-> NoKey, was |-> Unknown]
    /\ ret' = Undef
    /\ calls' = 0
    /\ UNCHANGED <<kind, now, mem, dir, sc>>

AtomicNext ==
    \/ Load
    \/ \E key \in Keys, v \in AtomicValues, s \in AtomicSeconds :
          StartPut(key, v, s)
    \/ \E key \in Keys : StartForget(key)
    \/ WriteTemp
    \/ Rename
    \/ SaveFails
    \/ StartFlush
    \/ \E cut \in BOOLEAN : Crash(cut)
    \/ Tick

Atomic == AtomicInit /\ [][AtomicNext]_vars

(***************************************************************************)
(* Triple: a MemoryCache, a FileCache and a FlatFileCache that start empty *)
(* are given the same calls at the same times.                             *)
(* ret = <<result of the memory store, of the file store, of the flat      *)
(*         store>>                                                         *)
(***************************************************************************)
TripleValues   == {Undef, Hello, Num(1)}
TripleSeconds  == {Undef, Num(SecDenom)}
TripleDefaults == {Lit(Undef), Lit(Gone)}

\* call c runs on the three stores, with the outcomes m, f and l
Together(c, m, f, l) ==
    /\ c.name = "increment" => (InRange(m) /\ InRange(f) /\ InRange(l))
    /\ mem' = m.s
    /\ dir' = f.s
    /\ flat' = l.s
    /\ op' = [name |-> c.name, key |-> c.key, was |-> Unknown]
    /\ ret' = <<m.r, f.r, l.r>>
    /\ calls' = 0
    /\ UNCHANGED <<kind, now, sc, par>>

\* the calls the three stores are given
TripleCalls ==
    {get(key, d) : key \in Keys, d \in TripleDefaults}
    \cup {pull(key, d) : key \in Keys, d \in TripleDefaults}
    \cup {put(key, v, s) : key \in Keys, v \in TripleValues, s \in TripleSeconds}
    \cup {add(key, v, s) : key \in Keys, v \in TripleValues, s \in TripleSeconds}
    \cup {remember(key, s, Hello) : key \in Keys, s \in TripleSeconds}
    \cup {touch(key, s) : key \in Keys, s \in TripleSeconds}
    \cup {increment(key, a) : key \in Keys, a \in Amounts}
    \cup {forget(key) : key \in Keys}
    \cup {has(key) : key \in Keys}
    \cup {ttl(key) : key \in Keys}
    \cup {flush, keys, count, prune}

\* the same call on each of the three stores
Each(c) ==
    Together(c, Memory_call(mem, now, c), File_call(dir, now, c),
             Flat_call(flat, now, c))

TripleInit == Init /\ kind = "memory"

TripleNext ==
    \/ \E c \in TripleCalls : Each(c)
    \/ Tick

Triple == TripleInit /\ [][TripleNext]_vars

(***************************************************************************)
(* Hashed: a store that is given a key of more than 200 characters and a   *)
(* key that percent-encoding changes.                                      *)
(***************************************************************************)
HashedKeys   == {LongKey, "b/c"}
HashedValues == {Hello, Num(1)}

HashedNext ==
    \/ \E key \in HashedKeys, v \in HashedValues, s \in RestartSeconds :
          Put(key, v, s)
    \/ \E key \in HashedKeys : Get(key, Lit(Undef))
    \/ \E key \in HashedKeys : Has(key)
    \/ \E key \in HashedKeys, a \in Amounts : Increment(key, a)
    \/ \E key \in HashedKeys : Forget(key)
    \/ KeysOp
    \/ Tick

Hashed == Init /\ [][HashedNext]_vars

(***************************************************************************)
(* Lifetime: a store is used, the flat file is rewritten from outside with *)
(* documents that hold invalid and expired entries (tests, part_009        *)
(* 352-389), and new instances are constructed on the path.                *)
(***************************************************************************)
\* writePayload(filePath, { a: ..., "b/c": ... }) by something else
Written(a, b) ==
    Doc([k \in AllKeys |-> IF k = "a" THEN a ELSE IF k = "b/c" THEN b ELSE Absent])

LifetimeDocuments ==
    {InvalidJson, JsonNull}
    \cup {Written(a, b) :
            a \in {Entry(Gone, NoExpiry, "a"), Entry(Gone, Epoch + TickMs, "a"),
                   Entry(Undef, NoExpiry, "a"), JsonNull},
            b \in {Absent, JsonNull, Entry(Undef, Epoch + MsPerSec, "b/c")}}

LifetimeSeconds == {Undef, Num(SecDenom)}

LifetimeNext ==
    \/ \E key \in Keys, s \in LifetimeSeconds : Put(key, Hello, s)
    \/ \E key \in Keys : Get(key, Lit(Gone))
    \/ \E key \in Keys : Forget(key)
    \/ Flush
    \/ Prune
    \/ KeysOp
    \/ Size
    \/ Tick
    \/ \E c \in LifetimeDocuments : ExternalRewrite(c)
    \/ Reopen

Lifetime == Init /\ [][LifetimeNext]_vars

(***************************************************************************)
(* Two FlatFileCache instances on one path.  `flat` is the instance that   *)
(* is making calls, with the file they share in flat.disk; the fields of   *)
(* the other instance wait in par.other until the caller turns to it.      *)
(***************************************************************************)
TwinKeys   == {"a", "b/c", ProtoKey}
TwinValues == {Hello, Num(1)}

Fields(fl) == [store |-> fl.store, loaded |-> fl.loaded,
               removedOnLoad |-> fl.removedOnLoad]

NoWriter == [by |-> "none", key |-> NoKey]

TwinInit ==
    /\ Constructed
    /\ kind = "flat"
    /\ sc = NoScenario
    /\ par = [me |-> "A", other |-> Fields(NewFlat), wrote |-> NoWriter]

\* instance.put(key, v), remembering which instance wrote last
TwinPut(key, v) ==
    /\ Do(put(key, v, Undef), Flat_put(flat, now, key, v, Undef))
    /\ par' = [par EXCEPT !.wrote = [by |-> par.me, key |-> key]]
    /\ UNCHANGED sc

\* the caller turns to the other instance
Switch ==
    /\ flat' = [store |-> par.other.store, loaded |-> par.other.loaded,
                removedOnLoad |-> par.other.removedOnLoad, disk |-> flat.disk]
    /\ par' = [par EXCEPT !.me = IF par.me = "A" THEN "B" ELSE "A",
                          !.other = Fields(flat)]
    /\ op' = [name |-> "switch", key |-> NoKey, was |-> Unknown]
    /\ ret' = Undef
    /\ calls' = 0
    /\ UNCHANGED <<kind, now, mem, dir, sc>>

TwinNext ==
    \/ \E key \in TwinKeys, v \in TwinValues : TwinPut(key, v)
    \/ \E key \in TwinKeys : Get(key, Lit(Undef))
    \/ \E key \in TwinKeys : Forget(key)
    \/ KeysOp
    \/ Switch

Twin == TwinInit /\ [][TwinNext]_vars

(***************************************************************************)
(* A FileCache directory with two entries, either of which may be          *)
(* something that fs.unlinkSync cannot remove.                             *)
(***************************************************************************)
StuckKeys   == {"a", "b/c"}
StuckValues == {Hello, Num(1)}

StuckNext ==
    \/ \E key \in StuckKeys, v \in StuckValues : Put(key, v, Undef)
    \/ \E key \in StuckKeys : Get(key, Lit(Undef))
    \/ \E key \in StuckKeys : Forget(key)
    \/ Flush
    \/ \E key \in StuckKeys : Obstruct(key)
    \/ Clear

Stuck == Init /\ [][StuckNext]_vars

(***************************************************************************)
(* A FileCache addressed by a long key and by the short key that spells    *)
(* the filename of the long one.                                           *)
(***************************************************************************)
AliasKey  == "long_" \o sha256(LongKey)
AliasKeys == {LongKey, AliasKey}

AliasInit == Init /\ kind = "file"

AliasNext ==
    \/ \E key \in AliasKeys, v \in HashedValues, s \in RestartSeconds :
          Put(key, v, s)
    \/ \E key \in AliasKeys, v \in HashedValues, s \in RestartSeconds :
          Add(key, v, s)
    \/ \E key \in AliasKeys, v \in HashedValues, s \in RestartSeconds :
          Remember(key, s, v)
    \/ \E key \in AliasKeys, s \in RestartSeconds : Touch(key, s)
    \/ \E key \in AliasKeys, a \in Amounts : Increment(key, a)
    \/ \E key \in AliasKeys : Forget(key)
    \/ \E key \in AliasKeys : Pull(key, Lit(Undef))
    \/ \E key \in AliasKeys : Get(key, Lit(Undef))
    \/ \E key \in AliasKeys : Has(key)
    \/ \E key \in AliasKeys : Ttl(key)
    \/ Tick

Alias == AliasInit /\ [][AliasNext]_vars

(***************************************************************************)
(* The read operations of the three stores, over entries that are live,    *)
(* expired, without a value or not entries at all.                         *)
(***************************************************************************)
ReadingDefaults == {Fn(Gone)}
ReadingLists    == {<<"a", "b/c">>}

ReadingNext ==
    \/ \E key \in PairKeys, v \in {Hello, Undef}, s \in LifetimeSeconds :
          Put(key, v, s)
    \/ \E key \in PairKeys, d \in ReadingDefaults : Get(key, d)
    \/ \E key \in PairKeys : Has(key)
    \/ \E key \in PairKeys : Ttl(key)
    \/ KeysOp
    \/ CountOp
    \/ Size
    \/ \E ks \in ReadingLists : GetMany(ks)
    \/ Tick
    \/ \E key \in PairKeys, c \in ForeignFiles : ExternalWrite(key, c)
    \/ \E c \in LifetimeDocuments : ExternalRewrite(c)
    \/ Reopen

Reading == Init /\ [][ReadingNext]_vars

(***************************************************************************)
(* Claims.  Would(c) is call c made in the current state; WouldAt(t, c) is *)
(* the same call made when the clock reads t with no call in between.      *)
(***************************************************************************)
Would(c)      == CallOn(kind, Store, now, c)
WouldAt(t, c) == CallOn(kind, Store, t, c)
HeldNow(key)  == Held(kind, Store, key)

\* the clock values the model reaches from now on
Later == {t \in now .. Epoch + MaxTicks * TickMs : (t - now) % TickMs = 0}

\* C1 as stated: in every store, get(k) right after put(k, v) with no TTL
\* returns v, for every v including null; has(k) right after forget(k) is false.
C1_RoundTrip ==
    /\ (op.name = "put" /\ op.s = Undef
            /\ op.v.t \in {"number", "string", "object", "null"}) =>
            \A d \in Defaults : Would(get(op.key, d)).r = op.v
    /\ op.name = "forget" => Would(has(op.key)).r = FALSE

\* C1 amended: get(k) right after put(k, v) with no TTL returns v when v is
\* neither null nor undefined and, in the per-key file store, is a value JSON
\* represents (not NaN or an infinity); for the other values it returns
\* undefined, whatever default is passed.  has(k) right after forget(k) is
\* false.
C1_RoundTripOfValues ==
    /\ (op.name = "put" /\ op.s = Undef) =>
            \A d \in Defaults :
                Would(get(op.key, d)).r =
                    IF op.v \in {Null, Undef} THEN Undef
                    ELSE IF kind = "file" /\ op.v.t \in {"NaN", "Infinity"} THEN Undef
                    ELSE op.v
    /\ op.name = "forget" => Would(has(op.key)).r = FALSE

\* C1 witness: a string was put with no TTL and get reads it back
C1_Witness ==
    /\ op.name = "put" /\ op.s = Undef /\ op.v = Hello
    /\ Would(get(op.key, Lit(Gone))).r = Hello

\* the physical entry of key is gone: no map entry, no file, and for the
\* flat-file store no entry in the document on disk either
Reclaimed(key) ==
    /\ HeldNow(key) = Absent
    /\ kind = "flat" => OnDisk(flat, key) = Absent

\* C2 as stated: a key whose entry had reached its expiresAt when a read path
\* ran (get, has, pull, ttl, touch, keys, count) was treated as absent by that
\* call (get/pull return the resolved default, has and touch false, ttl null,
\* keys omits it) and the call left no physical entry for it behind.
C2_ExpiredAbsentAndReclaimed ==
    \A k \in AllKeys :
        op.was[k] = "expired" =>
            /\ (op.name \in {"get", "pull"} /\ op.key = k) =>
                    ret = resolveDefault(op.d).v /\ Reclaimed(k)
            /\ (op.name \in {"has", "touch"} /\ op.key = k) =>
                    ret = FALSE /\ Reclaimed(k)
            /\ (op.name = "ttl" /\ op.key = k) => ret = Null /\ Reclaimed(k)
            /\ op.name = "keys" => k \notin ret /\ Reclaimed(k)
            /\ op.name = "count" => Reclaimed(k)

\* C3 as stated: after put(k, v, ttlSeconds) with ttlSeconds > 0 and v a
\* value, at every instant before the expiry instant ttl(k) is an integer r
\* with 0 < r <= ttlSeconds.
C3_TtlWithinSeconds ==
    (op.name = "put" /\ IsFinite(op.s) /\ op.s.n > 0 /\ op.v # Undef) =>
        \A t \in Later :
            t * SecDenom < now * SecDenom + op.s.n * MsPerSec =>
                LET r == WouldAt(t, ttl(op.key)).r IN
                /\ IsFinite(r)
                /\ 0 < r.n
                /\ r.n * SecDenom <= op.s.n

\* C3 amended: after put(k, v, ttlSeconds) with ttlSeconds > 0, at every
\* instant before the expiry instant ttl(k) is an integer r with
\* 0 < r < ttlSeconds + 1, that is r <= ceil(ttlSeconds), when v is not
\* undefined, and is null when v is undefined.
C3_TtlWithinCeilOfSeconds ==
    (op.name = "put" /\ IsFinite(op.s) /\ op.s.n > 0) =>
        \A t \in Later :
            t * SecDenom < now * SecDenom + op.s.n * MsPerSec =>
                LET r == WouldAt(t, ttl(op.key)).r IN
                IF op.v = Undef THEN r = Null
                ELSE /\ IsFinite(r)
                     /\ 0 < r.n
                     /\ (r.n - 1) * SecDenom < op.s.n

\* C3 witness: half a second after put(k, "hello", 1) ttl(k) is 1
C3_Witness ==
    /\ op.name = "put" /\ op.s = Num(SecDenom) /\ op.v = Hello
    /\ now + TickMs \in Later
    /\ WouldAt(now + TickMs, ttl(op.key)).r = Num(1)

\* what get reads back of a value v that the store of the instance holds
ReadBack(v) == OrUndefined(IF kind = "file" THEN JsonValue(v) ELSE v)

\* C4: right after put(k, v, s) the entry of k holds v; with s omitted, NaN
\* or an infinity it has no expiresAt, ttl(k) is null and k reads the same at
\* every later instant; with s finite its expiresAt is now + s * 1000, and
\* when s <= 0 the next get returns the default and has returns false.
\* forever(k, v) has the effect and result of put(k, v) in every state.
C4_PutSetsExpiry ==
    /\ op.name \in {"put", "forever"} =>
            LET e == HeldNow(op.key)
                s == IF op.name = "forever" THEN Undef ELSE op.s
            IN  /\ e # Absent
                /\ e.value = IF kind = "file" THEN JsonValue(op.v) ELSE op.v
                /\ ~IsFinite(s) =>
                        /\ e.expiresAt = NoExpiry
                        /\ \A t \in Later :
                              /\ WouldAt(t, ttl(op.key)).r = Null
                              /\ WouldAt(t, get(op.key, Lit(Undef))).r = ReadBack(op.v)
                              /\ WouldAt(t, has(op.key)).r = (op.v # Undef)
                /\ IsFinite(s) =>
                        /\ e.expiresAt # NoExpiry
                        /\ e.expiresAt * SecDenom = now * SecDenom + s.n * MsPerSec
                /\ (IsFinite(s) /\ s.n <= 0) =>
                        /\ \A d \in Defaults :
                              Would(get(op.key, d)).r = resolveDefault(d).v
                        /\ Would(has(op.key)).r = FALSE
    /\ \A k \in Keys, v \in PutValues :
            Would(forever(k, v)) = Would(put(k, v, Undef))

\* C4 witness: put(k, "hello", 0) stored an entry expiring now, and get
\* returns the default
C4_Witness ==
    /\ op.name = "put" /\ op.s = Num(0) /\ op.v = Hello
    /\ HeldNow(op.key) # Absent
    /\ HeldNow(op.key).expiresAt = now
    /\ Would(get(op.key, Lit(Gone))).r = Gone

\* call i of the scenario was a remember that found an entry of its key
\* stored and not expired
FoundUnexpired(i) ==
    LET o == sc.outs[i] IN
    /\ o.c.name = "remember"
    /\ o.e # Absent
    /\ ~isExpired(o.e, o.t)

\* calls i .. j of the scenario are sequential remember calls made while the
\* stored entry had not expired
RememberRun(i, j) ==
    /\ i < j
    /\ \A m \in i .. j : sc.outs[m].c.name = "remember"
    /\ \A m \in (i + 1) .. j : FoundUnexpired(m)

\* the factory was invoked at most once in calls i .. j, every call returned
\* what the first returned, and a first call that found an unexpired entry
\* returned its value without invoking the factory
OnceAndSame(i, j) ==
    /\ Cardinality({m \in i .. j : sc.outs[m].n > 0}) <= 1
    /\ \A m \in i .. j : sc.outs[m].n <= 1 /\ sc.outs[m].r = sc.outs[i].r
    /\ FoundUnexpired(i) =>
            sc.outs[i].n = 0 /\ sc.outs[i].r = sc.outs[i].e.value

\* C5 as stated: across sequential remember calls made while the stored
\* entry (one that has answers true for) has not expired the factory is
\* invoked at most once in total and every call returns the value of that first invocation, or the value that
\* was there before, in which case the factory is never invoked.
C5_FactoryAtMostOnce ==
    \A i, j \in DOMAIN sc.outs :
        ( /\ RememberRun(i, j)
          /\ \A m \in (i + 1) .. j : sc.outs[m].e.value # Undef ) =>
            OnceAndSame(i, j)

\* the entry that call m of the scenario found holds a value other than null
\* and undefined
FoundValue(m) == sc.outs[m].e.value \notin {Null, Undef}

\* C5 amended: the same, for calls that find the stored entry holding a
\* value other than null and undefined; a remember call that finds an
\* unexpired entry holding null or undefined invokes the factory again.
C5_FactoryAtMostOnceForValues ==
    /\ \A i, j \in DOMAIN sc.outs :
            ( /\ RememberRun(i, j)
              /\ \A m \in (i + 1) .. j : FoundValue(m)
              /\ FoundUnexpired(i) => FoundValue(i) ) => OnceAndSame(i, j)
    /\ \A m \in DOMAIN sc.outs :
            (FoundUnexpired(m) /\ ~FoundValue(m)) =>
                sc.outs[m].n = 1 /\ sc.outs[m].r = sc.outs[m].c.v

\* C5 witness: three remember calls on a missing key were made before the
\* entry expired; the factory ran once and all three returned "hello"
C5_Witness ==
    /\ Len(sc.outs) = 3
    /\ RememberRun(1, 3)
    /\ sc.outs[1].e = Absent /\ sc.outs[1].n = 1
    /\ \A m \in 1 .. 3 : sc.outs[m].r = Hello
    /\ sc.outs[2].n = 0 /\ sc.outs[3].n = 0
    /\ sc.outs[3].t > sc.outs[1].t

\* the scenario is put(k, n); increment(k, d); get(k); decrement(k, d);
\* get(k), and its first i calls have been made
Counting(i) ==
    /\ Len(sc.outs) >= i
    /\ Len(sc.outs) + Len(sc.todo) = 5
    /\ sc.outs[1].c.name = "put"

\* each of increment and decrement returned what the get after it returned,
\* and the last get returned the number that was put
InverseSoFar ==
    /\ Counting(3) => sc.outs[2].r = sc.outs[3].r
    /\ Counting(5) => /\ sc.outs[4].r = sc.outs[5].r
                       /\ sc.outs[5].r = sc.outs[1].c.v

\* C6 as stated: for every number n and amount d, put(k, n);
\* increment(k, d); decrement(k, d) leaves get(k) = n, and each of the two
\* calls returns what get(k) returns right after it.
C6_IncrementDecrementInverse == InverseSoFar

\* C6 amended: the same for finite n and d (whose sums the model computes
\* exactly).
C6_InverseForFiniteAmounts ==
    (Counting(3) /\ IsFinite(sc.outs[1].c.v) /\ IsFinite(sc.outs[2].c.a)) =>
        InverseSoFar

\* C6 witness: put(k, 1); increment(k, 2) returned 3 and get(k) 3;
\* decrement(k, 2) returned 1 and get(k) 1
C6_Witness ==
    /\ Counting(5)
    /\ sc.outs[1].c.v = Num(1) /\ sc.outs[2].c.a = Num(2)
    /\ sc.outs[4].c.name = "decrement" /\ sc.outs[4].c.a = Num(2)
    /\ sc.outs[2].r = Num(3) /\ sc.outs[3].r = Num(3)
    /\ sc.outs[4].r = Num(1) /\ sc.outs[5].r = Num(1)

\* C7 as stated: increment or decrement on an existing, unexpired entry,
\* whether its value is a number or not, leaves the entry's expiresAt as it
\* was, and ttl(k) is non-null after the call whenever it was before.
C7_CounterKeepsExpiry ==
    [][ \A k \in Keys :
          ( /\ op'.name \in {"increment", "decrement"}
            /\ \E a \in Amounts : Increment(k, a) \/ Decrement(k, a)
            /\ Standing(kind, Store, now, k) = "live" ) =>
              /\ HeldNow(k)' # Absent
              /\ HeldNow(k)'.expiresAt = HeldNow(k).expiresAt
              /\ Would(ttl(k)).r # Null => Would(ttl(k))'.r # Null ]_vars

\* the value the store of the instance keeps when v is written
Kept(v) == IF kind = "file" THEN JsonValue(v) ELSE v

\* C8: increment(k, a) returns a and stores a when k is missing, when the
\* stored value is not a number, when the stored content is malformed and
\* when the entry has expired; in the expired case the new entry has no
\* expiresAt.
C8_IncrementStartsFromZero ==
    [][ \A k \in Keys, a \in Amounts :
          LET st == Standing(kind, Store, now, k) IN
          ( /\ op'.name = "increment"
            /\ Increment(k, a)
            /\ \/ st \in {"absent", "malformed", "expired"}
               \/ ~IsNumber(HeldNow(k).value) ) =>
              /\ ret' = a
              /\ HeldNow(k)' # Absent
              /\ HeldNow(k)'.value = Kept(a)
              /\ st = "expired" => HeldNow(k)'.expiresAt = NoExpiry ]_vars

\* C8 witness: increment found an expired entry, returned its amount and
\* left a counter that never expires
C8_Witness ==
    /\ op.name = "increment" /\ op.was[op.key] = "expired"
    /\ ret = op.a
    /\ HeldNow(op.key) = Entry(op.a, NoExpiry, op.key)

\* C10: add(k, v, s) returns true exactly when has(k) was false at the call,
\* and then the entry of k holds v with the expiry that s gives; when it
\* returns false the entry of k is what it was.  An expired or malformed
\* entry is overwritten and add returns true.
C10_AddOnlyWhenMissing ==
    [][ \A k \in Keys, v \in AddValues, s \in AddSeconds :
          (op'.name = "add" /\ Add(k, v, s)) =>
              LET had == Would(has(k)).r
                  st  == Standing(kind, Store, now, k)
              IN  /\ ret' = ~had
                  /\ had => HeldNow(k)' = HeldNow(k)
                  /\ ~had =>
                        /\ HeldNow(k)' # Absent
                        /\ HeldNow(k)'.value = Kept(v)
                        /\ IF IsFinite(s)
                           THEN HeldNow(k)'.expiresAt * SecDenom
                                    = now * SecDenom + s.n * MsPerSec
                           ELSE HeldNow(k)'.expiresAt = NoExpiry
                  /\ st \in {"absent", "expired", "malformed", "novalue"} => ~had
                  /\ st = "live" => had ]_vars

\* C10 witness: add found an expired entry, stored "hello" and returned true
C10_Witness ==
    /\ op.name = "add" /\ op.was[op.key] = "expired" /\ op.v = Hello
    /\ ret = TRUE
    /\ HeldNow(op.key) # Absent
    /\ HeldNow(op.key).value = Hello

\* the calls in flight that have made their update
Updated == {i \in DOMAIN par.task : par.task[i].r # Undef}

\* what call i adds to the counter
Delta(i) ==
    IF par.task[i].c.name = "decrement" THEN 0 - par.task[i].c.a.n
    ELSE par.task[i].c.a.n

\* the number the counter starts from
InitialCount == IF par.initial = Undef THEN 0 ELSE par.initial.n

RECURSIVE SumOf(_)
SumOf(S) ==
    IF S = {} THEN 0
    ELSE LET i == CHOOSE x \in S : TRUE IN Delta(i) + SumOf(S \ {i})

\* the orders in which the calls of S can have run one after the other
OrdersOf(S) ==
    {f \in [1 .. Cardinality(S) -> S] :
        \A m, n \in 1 .. Cardinality(S) : m # n => f[m] # f[n]}

\* in order f, each call returned the count that the calls up to and
\* including it add up to
ReturnsFit(f) ==
    \A m \in DOMAIN f :
        par.task[f[m]].r = Num(InitialCount + SumOf({f[n] : n \in 1 .. m}))

\* C9: whatever way the increment and decrement calls in flight on one key
\* interleave at their awaits, the stored value is the initial value plus
\* the amounts of the calls that have made their update, and what those
\* calls return is what they return when run one after the other in some
\* order; in particular when all of them have finished.
C9_NoLostUpdate ==
    par.task # <<>> =>
        /\ Updated # {} =>
                /\ HeldNow("a") # Absent
                /\ HeldNow("a").value = Num(InitialCount + SumOf(Updated))
        /\ \E f \in OrdersOf(Updated) : ReturnsFit(f)

\* C9 witness: a decrement is suspended at its await while another call,
\* started after it, has made its update on top of the decrement's, and a
\* third has not started
C9_Witness ==
    /\ par.task # <<>>
    /\ \E i, j, k \in DOMAIN par.task :
          /\ i # j /\ i # k /\ j # k
          /\ par.task[i].c.name = "decrement"
          /\ par.task[i].pc = 2
          /\ par.task[j].pc > Len(Program(par.task[j].c))
          /\ par.task[j].r = Num(InitialCount + Delta(i) + Delta(j))
          /\ par.task[k].pc = 1
          /\ HeldNow("a").value = par.task[j].r

\* ---- calls racing on one key (specification Race)

\* the racing calls of one kind, those that have returned, and the index of
\* the call whose put ran last
Racing(name) == {i \in DOMAIN par.task : par.task[i].c.name = name}
Returned(i)  == par.task[i].pc = "done"
Wrote(i)     == \E m \in DOMAIN par.order : par.order[m] = i
LastWriter   == par.order[Len(par.order)]

\* C11: add is a check-then-write that is not atomic. An async add returns
\* true exactly when its own has saw the key as absent, and then it writes,
\* whatever another call did in between; so two adds on one absent key that
\* both ran has before either put both write and both return true, and
\* the value left in the store is the one the second put wrote.
C11_AddCheckThenWrite ==
    /\ \A i \in Racing("add") :
          Returned(i) =>
              /\ par.task[i].r = (~ par.task[i].h)
              /\ Wrote(i) <=> ~ par.task[i].h
    /\ (par.order # <<>> /\ LastWriter \in Racing("add")) =>
          /\ HeldNow("a") # Absent
          /\ HeldNow("a").value = par.task[LastWriter].c.v
          /\ HeldNow("a").expiresAt = NoExpiry

\* C11 witness: the key was absent, two adds with different values both saw
\* it absent, both returned true, and the store holds the second put's value
C11_Witness ==
    /\ par.initial = Undef
    /\ Racing("add") = {1, 2}
    /\ par.task[1].c.v # par.task[2].c.v
    /\ \A i \in {1, 2} :
          Returned(i) /\ ~ par.task[i].h /\ par.task[i].r = TRUE
    /\ par.order = <<2, 1>>
    /\ HeldNow("a").value = par.task[1].c.v

\* remember call i found no value (has was false, or get gave undefined)
\* and invoked its factory
Missed(i) == par.task[i].n = 1

\* C12: remember is a check-then-write that is not atomic. Each remember
\* that finds the key missing invokes its own factory once, stores the
\* factory's value and returns it, whatever was written while the factory
\* was pending; a remember that finds a value returns it and invokes
\* nothing. So the put that runs last decides the stored value: of two
\* overlapping remembers the later put overwrites the earlier, and a put
\* that completes while a factory is pending is overwritten.
C12_RememberCheckThenWrite ==
    /\ \A i \in Racing("remember") :
          /\ par.task[i].n <= 1
          /\ Returned(i) =>
                /\ ~ par.task[i].h => Missed(i)
                /\ Missed(i) <=> Wrote(i)
                /\ Missed(i) => par.task[i].r = par.task[i].c.v
                /\ ~ Missed(i) => par.task[i].r # Undef
    /\ (par.order # <<>> /\ LastWriter \in Racing("remember")) =>
          /\ HeldNow("a") # Absent
          /\ HeldNow("a").value = par.task[LastWriter].c.v
          /\ HeldNow("a").expiresAt = now + MsPerSec

\* C12 witness: two remembers on a missing key overlapped, each invoked its
\* factory, the callers received different values, and the store holds the
\* value of the put that ran later
C12_Witness ==
    /\ par.initial = Undef
    /\ Racing("remember") = {1, 2}
    /\ \A i \in {1, 2} : Returned(i) /\ Missed(i)
    /\ par.task[1].r # par.task[2].r
    /\ par.order = <<1, 2>>
    /\ HeldNow("a").value = par.task[2].r
    /\ HeldNow("a").value # par.task[1].r

\* C13: pull(k, d) returns what get(k, d) returns in the same state, and
\* after it the entry of k is physically gone, whether it was live, expired
\* or malformed: the map, the directory, the mirror and the backing
\* document hold nothing for k, a following pull(k, d) or get(k, d) returns
\* the resolved default and has(k) is false.
C13_PullReadsLikeGetAndRemoves ==
    [][ \A k \in Keys, d \in Defaults :
          (op'.name = "pull" /\ Pull(k, d)) =>
              /\ ret' = Would(get(k, d)).r
              /\ HeldNow(k)' = Absent
              /\ kind = "flat" => OnDisk(flat, k)' = Absent
              /\ Would(pull(k, d))'.r = resolveDefault(d).v
              /\ Would(get(k, d))'.r = resolveDefault(d).v
              /\ Would(has(k))'.r = FALSE ]_vars

\* C13 witness: pull met a file that is not a cache payload, returned the
\* factory's default and removed the file
C13_Witness ==
    /\ kind = "file"
    /\ op.name = "pull" /\ op.was[op.key] = "malformed" /\ op.d = Fn(Gone)
    /\ ret = Gone
    /\ HeldNow(op.key) = Absent

\* what touch(k, s) that returned true did to the entry e of k: value and
\* original key as they were, the expiry now + s * 1000 for a finite s and
\* none for +Infinity, after which ttl is null and has is true
Renewed(k, s, e) ==
    /\ HeldNow(k)' # Absent
    /\ HeldNow(k)'.value = e.value
    /\ HeldNow(k)'.key = e.key
    /\ IsFinite(s) =>
          HeldNow(k)'.expiresAt * SecDenom = now * SecDenom + s.n * MsPerSec
    /\ s = PosInf =>
          /\ HeldNow(k)'.expiresAt = NoExpiry
          /\ Would(ttl(k))'.r = Null
          /\ Would(has(k))'.r = TRUE

Loading == kind = "flat" /\ ~flat.loaded

\* the entry of key that a call finds: what the store holds, or for a store
\* that is loading, what loadFromDisk admits of the backing file
Found(key) ==
    IF Loading /\ ~Admitted(OnDisk(flat, key), now) THEN Absent ELSE HeldNow(key)

\* C15 as stated: forget(k) returns true if and only if an entry for k
\* existed and the call removed it; afterwards has(k) is false and a second
\* forget(k) returns false; no other key is changed.
C15_ForgetRemovesOneKey ==
    [][ \A k \in AllKeys :
          (op'.name = "forget" /\ Forget(k)) =>
              /\ ret' = (HeldNow(k) # Absent)
              /\ HeldNow(k)' = Absent
              /\ Would(has(k))'.r = FALSE
              /\ Would(forget(k))'.r = FALSE
              /\ \A j \in AllKeys \ {k} : HeldNow(j)' = HeldNow(j) ]_vars

\* C15: forget(k) returns true if and only if the call found an entry for k
\* (a map entry, a file or a mirror entry, expired or not) and removed it;
\* afterwards nothing is held for k, has(k) is false and a second forget(k)
\* returns false; every other key keeps the entry the call found for it.
\* What a flat-file store finds when the call is the one that loads the
\* backing file is what loadFromDisk admits: the expired and the valueless
\* entries of the file, of k and of the other keys, are dropped by the load.
C15_ForgetRemovesFoundKey ==
    [][ \A k \in AllKeys :
          (op'.name = "forget" /\ Forget(k)) =>
              /\ ret' = (Found(k) # Absent)
              /\ HeldNow(k)' = Absent
              /\ Would(has(k))'.r = FALSE
              /\ Would(forget(k))'.r = FALSE
              /\ \A j \in AllKeys \ {k} : HeldNow(j)' = Found(j) ]_vars

\* C15 witness: forget removed the entry of one key and returned true while
\* the other key kept its entry
C15_Witness ==
    /\ op.name = "forget" /\ ret = TRUE
    /\ HeldNow(op.key) = Absent
    /\ \E j \in AllKeys \ {op.key} :
          /\ op.was[j] = "live"
          /\ HeldNow(j) # Absent
          /\ HeldNow(j).value = Hello

\* C16: prune() never removes an unexpired entry with a value: for every
\* key k with has(k) true before prune(), the entry is held as it was, and
\* has(k), get(k) and ttl(k) give after prune() what they gave before, in
\* every store.
C16_PruneKeepsLive ==
    [][ (op'.name = "prune" /\ Prune) =>
          \A k \in AllKeys :
              Would(has(k)).r = TRUE =>
                  /\ HeldNow(k)' = HeldNow(k)
                  /\ Would(has(k))'.r = TRUE
                  /\ Would(get(k, Lit(Undef)))'.r = Would(get(k, Lit(Undef))).r
                  /\ Would(ttl(k))'.r = Would(ttl(k)).r ]_vars

\* C16 witness: prune removed an entry of one key and left the other key's
\* unexpired entry, which has a value and a time to live
C16_Witness ==
    /\ op.name = "prune" /\ ret = 1
    /\ \E k \in AllKeys :
          /\ op.was[k] = "live"
          /\ HeldNow(k) # Absent
          /\ HeldNow(k).value = Hello
          /\ HeldNow(k).expiresAt > now
          /\ Would(ttl(k)).r = Num(1)

\* C17: after flush() every entry is gone, expired or not: has(k) is false
\* for every key, keys() is empty and count() is 0; the directory of the
\* per-key file store holds no file, and in the flat-file store the backing
\* file does not exist and the mirror is empty.
C17_FlushLeavesNothing ==
    op.name = "flush" =>
        /\ \A k \in AllKeys : HeldNow(k) = Absent /\ Would(has(k)).r = FALSE
        /\ Would(keys).r = {}
        /\ Would(count).r = 0
        /\ kind = "memory" => \A k \in DOMAIN mem : mem[k] = Absent
        /\ kind = "file" => \A f \in DOMAIN dir : dir[f] = Absent
        /\ kind = "flat" =>
              /\ flat.disk = Absent
              /\ flat.loaded
              /\ \A k \in DOMAIN flat.store : flat.store[k] = Absent

\* C17 witness: flush ran on a store that held an unexpired entry of one
\* key and an expired entry of the other
C17_Witness ==
    /\ op.name = "flush"
    /\ \E k, j \in AllKeys : op.was[k] = "live" /\ op.was[j] = "expired"
    /\ \A k \in AllKeys : HeldNow(k) = Absent

\* the keys whose entry is physically present and stands in one of the ways
\* of set how
Present(how) ==
    {k \in AllKeys : HeldNow(k) # Absent /\ Standing(kind, Store, now, k) \in how}

Valueless(key) == HeldNow(key) # Absent /\ HeldNow(key).value = Undef

Requested(ks) == {ks[i] : i \in DOMAIN ks}

\* what getMany(ks) gave for the keys of ks that its result holds, and what
\* it did to their expired entries
ReadEach(ks) ==
    /\ DOMAIN ret' \subseteq Requested(ks)
    /\ \A k \in DOMAIN ret' : ret'[k] = Would(get(k, Lit(Undef))).r
    /\ \A k \in Requested(ks) \cap Present({"expired"}) : HeldNow(k)' = Absent
    /\ \A k \in Requested(ks) \ Present({"expired"}) : HeldNow(k)' = Found(k)

\* C20: getMany(keys) returns a map whose key set is exactly the set of the
\* requested keys, a key named twice appearing once, where each value is
\* what get(key) without a default returns: the live value, or undefined
\* for a missing or expired key; the expired entries of the requested keys
\* are reclaimed.
C20_GetManyMapsRequestedKeys ==
    [][ \A ks \in KeyLists :
          (op'.name = "getMany" /\ GetMany(ks)) =>
              /\ DOMAIN ret' = Requested(ks)
              /\ ReadEach(ks) ]_vars

\* getMany is as C20 states for every key list that does not name
\* "__proto__", and for one that does, in every respect but the key set
GetManyMapsOwnKeys ==
    [][ \A ks \in KeyLists :
          (op'.name = "getMany" /\ GetMany(ks)) =>
              /\ DOMAIN ret' = Requested(ks) \ {ProtoKey}
              /\ ReadEach(ks) ]_vars

\* getMany read a live key and a key whose entry had expired, named twice
GetManyReadsExpired ==
    /\ op.name = "getMany"
    /\ DOMAIN ret = {"a", "b/c"}
    /\ op.was["a"] = "live" /\ ret["a"] = Hello
    /\ op.was["b/c"] = "expired" /\ ret["b/c"] = Undef
    /\ HeldNow("b/c") = Absent

\* the store after put(k, v, s) for each item of items, one after the other
RECURSIVE AfterPuts(_, _, _)
AfterPuts(st, items, s) ==
    IF items = <<>> THEN st
    ELSE AfterPuts(CallOn(kind, st, now, put(Head(items)[1], Head(items)[2], s)).s,
                   Tail(items), s)

\* the number of forget calls that return true when forget(k) is called
\* for each key of ks, one after the other, from store st
RECURSIVE ForgetsTrue(_, _)
ForgetsTrue(st, ks) ==
    IF ks = <<>> THEN 0
    ELSE LET f == CallOn(kind, st, now, forget(Head(ks)))
         IN  (IF f.r THEN 1 ELSE 0) + ForgetsTrue(f.s, Tail(ks))

\* C21 as stated: forgetMany(keys) returns the number of forget calls that
\* returned true, which is the number of requested keys that were present,
\* a key listed twice counted once, and leaves has false for every
\* requested key; putMany(items, s) leaves the store as put(k, v, s) for
\* each item leaves it.
C21_BatchIteratesPresentKeys ==
    [][ /\ \A ks \in KeyLists :
              (op'.name = "forgetMany" /\ ForgetMany(ks)) =>
                  /\ ret' = ForgetsTrue(Store, ks)
                  /\ ret' = Cardinality({k \in Requested(ks) : HeldNow(k) # Absent})
                  /\ \A k \in Requested(ks) : Would(has(k))'.r = FALSE
        /\ \A items \in ItemLists, s \in PairSeconds :
              (op'.name = "putMany" /\ PutMany(items, s)) =>
                  Store' = AfterPuts(Store, items, s) ]_vars

\* C21: forgetMany(keys) returns the number of forget calls that returned
\* true when forget is called for each key in order, which is the number of
\* distinct requested keys for which the store found an entry, expired or
\* not (a flat-file store that loads its backing file in the call finds
\* what loadFromDisk admits); nothing is held for a requested key afterwards
\* and has is false for it, and the other keys keep what was found for
\* them. putMany(items, s) leaves the store as put(k, v, s) for each item
\* leaves it.
C21_BatchIteratesFoundKeys ==
    [][ /\ \A ks \in KeyLists :
              (op'.name = "forgetMany" /\ ForgetMany(ks)) =>
                  /\ ret' = ForgetsTrue(Store, ks)
                  /\ ret' = Cardinality({k \in Requested(ks) : Found(k) # Absent})
                  /\ \A k \in Requested(ks) :
                        HeldNow(k)' = Absent /\ Would(has(k))'.r = FALSE
                  /\ ks # <<>> =>
                        \A k \in AllKeys \ Requested(ks) : HeldNow(k)' = Found(k)
        /\ \A items \in ItemLists, s \in PairSeconds :
              (op'.name = "putMany" /\ PutMany(items, s)) =>
                  /\ Store' = AfterPuts(Store, items, s)
                  /\ \A i \in DOMAIN items :
                        /\ HeldNow(items[i][1])' # Absent
                        /\ HeldNow(items[i][1])'.value = Kept(items[i][2])
                  /\ ret' = Undef ]_vars

\* C21 witness: forgetMany of a key named twice and a second key removed
\* both entries and returned 2
C21_Witness ==
    /\ op.name = "forgetMany" /\ ret = 2
    /\ op.was["a"] = "live" /\ op.was["b/c"] = "expired"
    /\ \A k \in PairKeys : HeldNow(k) = Absent

\* C22: the default of get and pull is resolved lazily. A factory default is
\* invoked at most once in a call, and only when the key is missing, has
\* expired or cannot be read, never when the call returns a stored value; a
\* factory that throws makes the call return undefined, and the store is
\* left as the same call with no default leaves it.
C22_DefaultResolvedLazily ==
    [][ \A k \in Keys, d \in Defaults :
          (op'.name \in {"get", "pull"} /\ (Get(k, d) \/ Pull(k, d))) =>
              LET st == IF Loading /\ Found(k) = Absent THEN "absent"
                        ELSE Standing(kind, Store, now, k)
              IN
              /\ calls' <= 1
              /\ calls' = 1 =>
                    /\ d.d # "literal"
                    /\ st \in {"absent", "expired", "malformed"}
                    /\ ret' = resolveDefault(d).v
              /\ st \in {"live", "novalue"} => calls' = 0
              /\ d = FnThrows =>
                    /\ st \in {"absent", "expired", "malformed"} => ret' = Undef
                    /\ op'.name = "get" => Store' = Would(get(k, Lit(Undef))).s
                    /\ op'.name = "pull" => Store' = Would(pull(k, Lit(Undef))).s ]_vars

\* C22 witness: get met an expired entry, invoked a factory that threw,
\* returned undefined and reclaimed the entry as a plain miss does
C22_Witness ==
    /\ op.name = "get" /\ op.d = FnThrows /\ op.was[op.key] = "expired"
    /\ calls = 1
    /\ ret = Undef
    /\ HeldNow(op.key) = Absent

\* the unexpired entry of key holds no value: undefined, or a stored null
NoValue(key) ==
    /\ Standing(kind, Store, now, key) \in {"novalue", "live"}
    /\ HeldNow(key).value \in {Undef, Null}

\* C23: a key whose stored value is absent (undefined, no value field, or a
\* stored null) reads as a key that was never stored: for every default d,
\* get(k, d) and pull(k, d) return the resolved default and has(k) is false.
C23_NoValueReadsAsMissing ==
    \A k \in Keys, d \in Defaults :
        NoValue(k) =>
            /\ Would(get(k, d)).r = resolveDefault(d).v
            /\ Would(pull(k, d)).r = resolveDefault(d).v
            /\ Would(has(k)).r = FALSE

\* what the stores do with an entry that holds no value: get and pull
\* return undefined whatever the default and invoke no factory; has is
\* false for undefined and true for a stored null (a flat-file store that
\* has yet to load drops the entry without a value and then reads a miss)
NoValueReadsUndefined ==
    \A k \in Keys, d \in Defaults :
        (NoValue(k) /\ Found(k) # Absent) =>
            /\ Would(get(k, d)).r = Undef /\ Would(get(k, d)).c = 0
            /\ Would(pull(k, d)).r = Undef /\ Would(pull(k, d)).c = 0
            /\ Would(has(k)).r = (HeldNow(k).value = Null)

(***************************************************************************)
(* C24  Malformed or unreadable storage is treated as absent.              *)
(***************************************************************************)
\* what an accessor of key "a" does when it finds the storage in one of the
\* stands of hows: it does not raise; get returns the resolved default, has
\* false, ttl null, touch false; add stores the value and returns true;
\* increment counts from 0; pull returns the default and removes a malformed
\* file
ReadsAsAbsent(hows) ==
    (/\ op'.name \in {"get", "has", "ttl", "touch", "add", "increment", "pull"}
     /\ kind \in {"file", "flat"}
     /\ op'.was["a"] \in hows)
    => /\ ~op'.threw
       /\ op'.name = "get" => ret' = resolveDefault(op'.d).v
       /\ op'.name = "has" => ret' = FALSE
       /\ op'.name = "ttl" => ret' = Null
       /\ op'.name = "touch" => ret' = FALSE
       /\ op'.name = "add" =>
             /\ ret' = TRUE
             /\ HeldNow("a")' # Absent
             /\ HeldNow("a")'.value = op'.v
       /\ op'.name = "increment" => ret' = op'.a
       /\ op'.name = "pull" =>
             /\ ret' = resolveDefault(op'.d).v
             /\ op'.was["a"] = "malformed" => HeldNow("a")' = Absent

\* C24: in the file-backed stores malformed or unreadable storage for a key
\* (invalid JSON, a JSON null payload, an unreadable path) is treated as
\* absent by every accessor and never raises: get returns the resolved
\* default, has false, ttl null, touch false, add stores and returns true,
\* increment starts from 0, pull removes the malformed file where it can.
C24_UnreadableIsAbsent == [][ReadsAsAbsent({"malformed", "unreadable"})]_vars

\* the same for invalid JSON and a JSON null payload alone
MalformedIsAbsent == [][ReadsAsAbsent({"malformed"})]_vars

\* the accessors that only read do not raise on an unreadable path either
UnreadableReadsAsAbsent ==
    [][op'.name \in {"get", "has", "ttl", "touch", "pull"}
          => ReadsAsAbsent({"unreadable"})]_vars

(***************************************************************************)
(* C25  No steady-state operation throws.                                  *)
(***************************************************************************)
Writers == {"put", "forever", "add", "remember", "touch", "increment",
            "decrement", "forget", "pull", "prune", "flush"}

\* C25: in every store, when the underlying write or delete fails at the OS
\* level, put, forever, add, remember, touch, increment, decrement, forget,
\* pull, prune and flush all return normally.
C25_WritersReturnNormally == [][op'.name \in Writers => ~op'.threw]_vars

\* the memory and flat-file stores return normally from every call, and the
\* per-key file store from touch, pull, prune and flush
GuardedWritersReturnNormally ==
    [][(/\ op'.name \in Writers
        /\ \/ kind # "file"
           \/ op'.name \in {"touch", "pull", "prune", "flush"})
       => ~op'.threw]_vars

\* a write or delete of the per-key file store has failed and left the call
\* as an exception
FileWriterThrew ==
    /\ kind = "file"
    /\ op.name \in {"put", "forever", "add", "remember", "increment",
                    "decrement", "forget"}
    /\ op.threw

(***************************************************************************)
(* C26  A failed save is swallowed and the mirror stays authoritative.     *)
(***************************************************************************)
\* the instance as it would stand had its saves reached the file
HadSaved(fl) ==
    [fl EXCEPT !.disk = saveToDisk([fl EXCEPT !.disk = Absent]).disk]

FlatCalls ==
    {get("a", Lit(Gone)), pull("a", Lit(Gone)), has("a"), ttl("a"), keys,
     count, prune, forget("a"), flush, put("a", Fresh, Num(SecDenom)),
     add("a", Fresh, Undef), remember("a", Undef, Fresh),
     touch("a", Num(SecDenom)), increment("a", Num(1))}

\* what call c does to the instance fl, the file apart
Behaves(fl, t, c) ==
    LET out == Flat_call(fl, t, c)
    IN  <<out.r, out.c, out.x, out.s.store, out.s.loaded, out.s.removedOnLoad>>

Reopened(fl) == [NewFlat EXCEPT !.disk = fl.disk]

\* get and ttl of key, as the instance fl answers them at time t
Answers(fl, t, key) ==
    <<Flat_get(fl, t, key, Lit(Undef)).r, Flat_ttl(fl, t, key).r>>

\* C27: after any sequence of operations whose writes all succeed, a freshly
\* constructed instance on the same path returns for every key the same get
\* and ttl results as the writing instance.
C27_FreshInstanceAgrees ==
    (kind = "flat" /\ flat.loaded) =>
        \A key \in AllKeys :
            Answers(Reopened(flat), now, key) = Answers(flat, now, key)

\* a value that JSON.stringify writes as it is
Representable(e) == e = Absent \/ JsonValue(e.value) = e.value

\* the same for the values that JSON can represent, under every key
RepresentableValuesPersist ==
    (kind = "flat" /\ flat.loaded) =>
        \A key \in AllKeys :
            Representable(flat.store[key]) =>
                Answers(Reopened(flat), now, key) = Answers(flat, now, key)

\* the same holds for every key but "__proto__" whose value JSON can represent
OrdinaryKeysPersist ==
    (kind = "flat" /\ flat.loaded) =>
        \A key \in AllKeys \ {ProtoKey} :
            Representable(flat.store[key]) =>
                Answers(Reopened(flat), now, key) = Answers(flat, now, key)

(***************************************************************************)
(* C28  The flat file is rewritten atomically.                             *)
(***************************************************************************)
\* C28: every save writes the whole mirror to a temp file and renames it over
\* the target, so at every intermediate step, a failure or crash between the
\* write and the rename included, the target file is either absent or a
\* complete serialization of the mirror as of some completed save, never a
\* partial document.
C28_TargetAbsentOrComplete ==
    /\ flat.disk # Absent => (IsDoc(flat.disk) /\ flat.disk = par.last)
    /\ op.name = "rename" => flat.disk = Serialized(flat)

\* the process ended in the middle of the write: the temp file is cut short
\* and the target holds the document of an earlier save
C28_Witness ==
    /\ op.name = "crash"
    /\ par.temp = Partial
    /\ IsDoc(flat.disk)

(***************************************************************************)
(* C29  The three stores are interchangeable.                              *)
(***************************************************************************)
ContractCalls == {"get", "pull", "put", "forget", "flush", "has", "add",
                  "remember", "keys", "count", "prune", "ttl", "touch",
                  "increment"}

\* the three stores returned the same result from the last call
SameResult == ret[1] = ret[2] /\ ret[2] = ret[3]

\* C29: for every sequence of contract operations applied with the same
\* arguments and the same clock to a memory, a per-key file and a flat-file
\* store that start empty and whose I/O succeeds, every operation returns the
\* same result in all three.
C29_StoresInterchangeable == op.name \in ContractCalls => SameResult

(***************************************************************************)
(* C30  Long keys are stored under their hash.                             *)
(***************************************************************************)
\* the file of a long key
LongFile == "long_" \o sha256(LongKey)

\* C30: in the per-key file store a key longer than 200 characters is stored
\* under long_<sha256-hex> with the original key kept in the payload, and
\* shorter keys under their percent-encoded form; for a long key, put then
\* get, has, increment and forget by the identical string reach the same
\* entry, and keys() reports the original string.
C30_LongKeysHashed ==
    [][(kind = "file" /\ op'.name = "put") =>
        LET filename == IF Len(op'.key) > MAX_KEY_LENGTH THEN LongFile
                        ELSE encodeURIComponent(op'.key)
            written == Payload(op'.v, ExpiresAtFor(op'.s, now), op'.key)
            counted == File_increment(dir', now', op'.key, Num(1))
            forgotten == File_forget(dir', now', op'.key)
        IN  /\ dir'[filename] = written
            /\ \A f \in DOMAIN dir : f # filename => dir'[f] = dir[f]
            /\ ~isExpired(written, now') =>
                  /\ File_get(dir', now', op'.key, Lit(Gone)).r = op'.v
                  /\ File_has(dir', now', op'.key).r
                  /\ op'.key \in File_keys(dir', now').r
                  /\ filename \notin File_keys(dir', now').r
                  /\ counted.r = Plus(IF IsNumber(op'.v) THEN op'.v ELSE Num(0),
                                      Num(1))
                  /\ counted.s[filename].key = op'.key
                  /\ \A f \in DOMAIN dir : f # filename => counted.s[f] = dir'[f]
            /\ forgotten.r
            /\ forgotten.s[filename] = Absent]_vars

\* a long key has been put: its file is named by the hash and keeps the key
C30_Witness ==
    /\ kind = "file"
    /\ op.name = "put"
    /\ op.key = LongKey
    /\ Len(LongKey) > MAX_KEY_LENGTH
    /\ dir[LongFile] # Absent
    /\ dir[LongFile].key = LongKey
    /\ dir[encodeURIComponent("b/c")] # Absent

(***************************************************************************)
(* C31  The flat-file instance loads once and then works on its mirror.    *)
(***************************************************************************)
\* the call that op records
CallOf(o) == Call(o.name, o.key, o.v, o.s, o.d, o.a, <<>>)

Primitives == {"get", "put", "forget", "flush", "prune", "keys", "size"}

\* what the file can be made to hold from outside
OutsideDocuments == LifetimeDocuments \cup {Absent}

\* an instance goes from unloaded to loaded on its first call and never back;
\* a new instance has read nothing; flush marks it loaded without reading
LoadsOnce ==
    kind = "flat" =>
        /\ (flat.loaded /\ op'.name # "new") => flat'.loaded
        /\ op'.name = "new" => flat' = [NewFlat EXCEPT !.disk = flat.disk]
        /\ op'.name \in Primitives => flat'.loaded
        /\ (op'.name = "flush" /\ ~flat.loaded) =>
              \A D \in OutsideDocuments :
                  LET o == Flat_flush([flat EXCEPT !.disk = D], now)
                  IN  /\ o.s.store = flat'.store
                      /\ o.s.removedOnLoad = flat'.removedOnLoad

\* a call of names on a loaded instance gives the result and the mirror it
\* would have given had the file been changed from outside just before it
WorksOnMirror(names) ==
    (kind = "flat" /\ flat.loaded /\ op'.name \in names) =>
        \A D \in OutsideDocuments :
            LET o == Flat_call([flat EXCEPT !.disk = D], now, CallOf(op'))
            IN  o.r = ret' /\ o.s.store = flat'.store

\* C31: a flat-file instance goes unloaded -> loaded exactly once and never
\* back; construction reads nothing; the backing file is read at most once, on
\* the first primitive call (flush marks the instance loaded without reading);
\* after that every operation works on the mirror, so changes made to the
\* file from outside the instance are never observed by it.
C31_LoadsOnceThenMirror == [][LoadsOnce /\ WorksOnMirror(Primitives)]_vars

\* the same, where size() is the one operation that looks at the file after
\* the load: it returns the bytes of the file as it stands
C31_LoadsOnceThenMirrorButSize ==
    [][/\ LoadsOnce
       /\ WorksOnMirror(Primitives \ {"size"})
       /\ (kind = "flat" /\ op'.name = "size") => ret' = Bytes(flat'.disk)]_vars

\* a loaded instance has answered get from its mirror although the file was
\* replaced from outside
C31_Witness ==
    /\ kind = "flat"
    /\ flat.loaded
    /\ op.name = "get"
    /\ ret = Hello
    /\ flat.disk = InvalidJson

(***************************************************************************)
(* C32  What the load admits, and what prune reports.                      *)
(***************************************************************************)
\* the entries of the document that are not objects with a value and an
\* expiry that has not passed
Unfit(doc, t) ==
    IF ~IsDoc(doc) THEN {}
    ELSE {k \in DOMAIN doc.entries :
            LET e == doc.entries[k]
            IN  IF e = Absent THEN FALSE
                ELSE IF e = JsonNull THEN TRUE
                ELSE e.value = Undef
                     \/ (e.expiresAt # NoExpiry /\ e.expiresAt <= t)}

\* the entries of the mirror that prune removes itself
Stale(st, t) ==
    {k \in DOMAIN st :
        IF st[k] = Absent THEN FALSE
        ELSE st[k].value = Undef
             \/ (st[k].expiresAt # NoExpiry /\ st[k].expiresAt <= t)}

\* C32: loadFromDisk admits to the mirror only entries that are objects with
\* a present value and a non-expired expiresAt, rewrites the file without the
\* dropped entries, and counts each dropped entry once; the first prune()
\* after the load returns that count plus the entries it removes itself, and
\* the count is then reset so that no later prune() reports them again.
C32_LoadFiltersAndPruneCounts ==
    [][kind = "flat" =>
        /\ (~flat.loaded /\ IsDoc(flat.disk)
                /\ op'.name \in {"get", "keys", "size"}) =>
              /\ \A k \in AllKeys :
                    IF flat.disk.entries[k] = Absent \/ k \in Unfit(flat.disk, now)
                    THEN flat'.store[k] = Absent
                    ELSE /\ flat'.store[k] # Absent
                         /\ flat'.store[k].value = flat.disk.entries[k].value
                         /\ flat'.store[k].expiresAt
                               = flat.disk.entries[k].expiresAt
              /\ flat'.removedOnLoad = Cardinality(Unfit(flat.disk, now))
              /\ Unfit(flat.disk, now) # {} =>
                    /\ flat'.disk = Serialized(flat')
                    /\ Unfit(flat'.disk, now) = {}
        /\ op'.name = "prune" =>
              /\ ret' = (IF flat.loaded
                         THEN flat.removedOnLoad + Cardinality(Stale(flat.store, now))
                         ELSE Cardinality(Unfit(flat.disk, now)))
              /\ flat'.removedOnLoad = 0
              /\ Stale(flat'.store, now) = {}]_vars

\* prune has reported the two entries that the load of this instance dropped
C32_Witness ==
    /\ kind = "flat"
    /\ op.name = "prune"
    /\ ret = 2
    /\ flat.removedOnLoad = 0

(***************************************************************************)
(* C33  Two instances on one path: the last whole document wins.           *)
(***************************************************************************)
\* on the keys ks the document holds the entries of the mirror and no others
HoldsOnly(doc, st, ks) ==
    /\ IsDoc(doc)
    /\ \A k \in ks :
          IF st[k] = Absent THEN doc.entries[k] = Absent
          ELSE /\ doc.entries[k] # Absent
               /\ doc.entries[k] # JsonNull
               /\ doc.entries[k].value = st[k].value

\* a put by one loaded instance that follows a put by the other loaded one
SecondPut ==
    /\ kind = "flat"
    /\ flat.loaded
    /\ par.other.loaded
    /\ par.wrote.by \notin {"none", par.me}
    /\ op'.name = "put"
    /\ par'.me = par.me

\* what the second put must leave behind, for second keys drawn from ks
LastWriteWins(ks) ==
    (SecondPut /\ op'.key \in ks) =>
        LET k1 == par.wrote.key
            k2 == op'.key
            third == Reopened(flat')
        IN  /\ HoldsOnly(flat'.disk, flat'.store, ks)
            /\ par'.other = par.other
            /\ Flat_get(third, now, k2, Lit(Undef)).r = op'.v
            /\ (k1 # k2 /\ k1 \in ks /\ flat.store[k1] = Absent) =>
                  /\ Flat_get(flat', now, k1, Lit(Undef)).r = Undef
                  /\ Flat_get(third, now, k1, Lit(Undef)).r = Undef

\* C33: two flat-file instances on the same path share no state and the
\* whole document of the last writer wins: when A and B have both loaded,
\* A.put(k1, v1) followed by B.put(k2, v2) leaves a file that holds only B's
\* mirror, B never observes k1, and a fresh third instance sees k2 but not
\* k1.
C33_LastWriterWins == [][LastWriteWins(AllKeys)]_vars

\* the same for every second key that an object literal can carry
OrdinaryLastWriterWins == [][LastWriteWins(AllKeys \ {ProtoKey})]_vars

\* B has written "b/c" after A wrote "a", and the file has lost "a"
C33_Witness ==
    /\ kind = "flat"
    /\ op.name = "put"
    /\ op.key = "b/c"
    /\ par.me = "B"
    /\ par.other.store["a"] # Absent
    /\ flat.store["a"] = Absent
    /\ flat.disk.entries["a"] = Absent

(***************************************************************************)
(* C34  FileCache.flush and a file that cannot be deleted.                 *)
(***************************************************************************)
\* C34: FileCache.flush() ignores individual deletion errors: when deleting
\* one entry fails, flush still deletes every other file and returns
\* without throwing.
C34_FlushSkipsUndeletable ==
    [][(kind = "file" /\ op'.name = "flush") =>
          /\ ~op'.threw
          /\ \A f \in DOMAIN dir : dir[f] # Blocked => dir'[f] = Absent]_vars

\* flush returns without throwing, whatever stands in the directory
FlushReturnsNormally ==
    [][(kind = "file" /\ op'.name = "flush") =>
          /\ ~op'.threw
          /\ \A f \in DOMAIN dir : dir'[f] \in {Absent, dir[f]}
          /\ (\A f \in DOMAIN dir : dir[f] # Blocked) =>
                \A f \in DOMAIN dir : dir'[f] = Absent]_vars

(***************************************************************************)
(* C35  ttl: the remaining seconds, rounded up.                            *)
(***************************************************************************)
\* the steps that write nothing to a key
Untouching == {"get", "has", "ttl", "keys", "count", "prune", "forget",
               "pull", "flush", "tick"}

\* what ttl answers for the entry that stood under the key
TtlAnswers ==
    op'.name = "ttl" =>
        LET e == HeldNow(op'.key) IN
        IF e = Absent \/ ~Parsed(e) THEN ret' = Null
        ELSE IF e.value = Undef THEN ret' = Null
        ELSE IF e.expiresAt = NoExpiry THEN ret' = Null
        ELSE IF e.expiresAt - now <= 0
             THEN /\ ret' = Null
                  /\ Held(kind, Store', op'.key) = Absent
        ELSE /\ IsFinite(ret')
             /\ ret'.n * MsPerSec >= e.expiresAt - now
             /\ (ret'.n - 1) * MsPerSec < e.expiresAt - now
             /\ Held(kind, Store', op'.key) = e

\* what ttl would answer never grows while nothing is written to the key
TtlNeverGrows ==
    op'.name \in Untouching =>
        \A k \in Keys :
            LET before == WouldAt(now, ttl(k)).r
                after  == CallOn(kind, Store', now', ttl(k)).r
            IN  IsFinite(after) => IsFinite(before) /\ after.n <= before.n

\* C35: ttl(k) returns the remaining lifetime in whole seconds rounded up,
\* ceil((expiresAt - now) / 1000), for a present, unexpired entry with an
\* expiry; null when the key is missing, the value is absent or no expiry
\* is set; when it finds remaining <= 0 it returns null and removes the
\* entry.  The result never increases between two ttl(k) calls with no
\* intervening write to k.
C35_TtlRoundsUp == [][TtlAnswers /\ TtlNeverGrows]_vars

\* ttl has answered 1 for an entry with less than a second left
C35_Witness ==
    /\ op.name = "ttl"
    /\ ret = Num(1)
    /\ HeldNow(op.key) # Absent
    /\ HeldNow(op.key).expiresAt - now < MsPerSec
    /\ HeldNow(op.key).expiresAt - now > 0

(***************************************************************************)
(* C36  has and get.                                                       *)
(***************************************************************************)
\* has(k) is true exactly when get(k) returns something
HasIffGets(k) ==
    (Would(has(k)).r = TRUE) <=> (Would(get(k, Lit(Undef))).r # Undef)

\* C36: has and get agree in every reachable state of every store: for
\* every key k, has(k) returns true exactly when get(k) with no default
\* returns a value other than undefined (in particular after put(k, null)
\* and after remember(k, t, f) where f returned null).
C36_HasAgreesWithGet == \A k \in Keys : HasIffGets(k)

\* they agree wherever the stored value is not null
HasAgreesWithGetButNull ==
    \A k \in Keys :
        LET e == HeldNow(k) IN
        (e # Absent /\ Parsed(e) /\ ~isExpired(e, now) /\ e.value = Null)
            \/ HasIffGets(k)

(***************************************************************************)
(* C37  Keys are isolated from one another.                                *)
(***************************************************************************)
KeyOps == {"put", "add", "remember", "touch", "increment", "forget", "pull",
           "get", "has", "ttl"}

\* what a caller can read under a key
Reads(st, t, k) ==
    <<CallOn(kind, st, t, get(k, Lit(Undef))).r,
      CallOn(kind, st, t, has(k)).r,
      CallOn(kind, st, t, ttl(k)).r>>

\* a call addressed to another key leaves what is read under the keys of ks
Isolated(ks) ==
    \A k2 \in ks :
        (op'.name \in KeyOps /\ op'.key # k2) =>
            Reads(Store', now', k2) = Reads(Store, now, k2)

\* C37: keys are isolated from one another: for any two distinct keys
\* k1 # k2 (of any length, including a short key that spells the text long_
\* followed by the hex digest), no operation addressed to k1 changes the
\* result of get(k2), has(k2) or ttl(k2); in the per-key file store distinct
\* keys never map to the same storage filename.
C37_KeysIsolated == [][Isolated(AllKeys \cup AliasKeys)]_vars

\* distinct keys have distinct filenames
FilenamesDistinct ==
    \A k1, k2 \in AllKeys \cup AliasKeys :
        k1 # k2 => pathForKey(k1) # pathForKey(k2)

\* keys whose filenames differ are isolated, in every store
OtherKeysIsolated == [][Isolated(AllKeys)]_vars

(***************************************************************************)
(* C38  What a read operation may change.                                  *)
(***************************************************************************)
Readers == {"get", "has", "ttl", "keys", "count", "size", "getMany"}

\* the entry under the key had expired
WasExpired(e) == Parsed(e) /\ isExpired(e, now)

\* the entry under the key is one that the load of the flat file drops
DroppedByLoad(k) ==
    kind = "flat" /\ ~flat.loaded /\ k \in Unfit(flat.disk, now)

\* a read leaves every entry as it was, or removes it when gone(k) allows
ReadsOnlyRemove(gone(_)) ==
    op'.name \in Readers =>
        \A k \in AllKeys :
            LET e == HeldNow(k)
                after == Held(kind, Store', k)
            IN  /\ after # e => after = Absent /\ (WasExpired(e) \/ gone(k))
                /\ Would(has(k)).r = FALSE =>
                      CallOn(kind, Store', now', has(k)).r = FALSE

Never(k) == FALSE

\* C38: read operations never create or alter a live entry: get, has, ttl,
\* keys, count, size and getMany change the store only by removing entries
\* that are already expired; a live key keeps its value and expiresAt, an
\* absent key stays absent, and a key for which has returned false does not
\* become present again without a write.
C38_ReadsRemoveOnlyExpired == [][ReadsOnlyRemove(Never)]_vars

\* C38, amended: besides expired entries, the first call of a flat-file
\* instance also removes the entries that its load does not admit.
C38_ReadsRemoveOnlyDead == [][ReadsOnlyRemove(DroppedByLoad)]_vars

\* a read has removed an expired entry and left the live one alone
C38_Witness ==
    /\ op.name \in Readers
    /\ op.was["a"] = "expired"
    /\ HeldNow("a") = Absent
    /\ op.was["b/c"] = "live"
    /\ HeldNow("b/c") # Absent

(***************************************************************************)
(* C39  prune right after flush.                                           *)
(***************************************************************************)
\* C39: prune() right after flush() returns 0 in every store, whatever
\* operations preceded the flush: flush leaves nothing for prune to remove
\* or to report, including in a flat-file instance whose initial load
\* dropped expired or invalid entries.
C39_PruneAfterFlushIsZero ==
    op.name = "flush" => Would(prune).r = 0

\* after flush, prune removes nothing and reports what the load had counted
PruneAfterFlushReportsLoad ==
    op.name = "flush" =>
        /\ Would(prune).r = (IF kind = "flat" THEN flat.removedOnLoad ELSE 0)
        /\ \A k \in AllKeys : HeldNow(k) = Absent

====
